---- MODULE Spec2Model ----
(***************************************************************************)
(* The rate retrieval engine of api/convert.js: query validation, the TTL  *)
(* cache keyed by base currency, the bounded-retry upstream fetch and the  *)
(* fallback chain of the request handler.                                  *)
(*                                                                         *)
(* Strings that the code inspects character by character (currency codes,  *)
(* the amount literal, the HTTP method) are sequences of one-character     *)
(* strings.  A JavaScript number is a decimal [m, e] standing for          *)
(* m / 10^e.  The model's literals have at most 15 significant digits, so  *)
(* that decimal and IEEE double agree on every comparison made, except     *)
(* where the double's rounding decides the outcome: literals next to       *)
(* 10^12, literals next to the largest double, and products halfway        *)
(* between two multiples of 10^-6.  Those cases are modelled by the        *)
(* double's value.                                                         *)
(***************************************************************************)
EXTENDS Integers, Sequences, FiniteSets, TLC

VARIABLES
    cache,      \* the module-level Map: cache key -> [ts, data]
    now,        \* Date.now(), in clock ticks
    apiKey,     \* whether process.env.EXCHANGE_RATE_API_KEY is set
    pc,         \* per request: idle / fetch / backoff / done
    req,        \* per request: req.method and req.query as received
    vreq,       \* per request: the validated {from, to, amount}
    attempt,    \* per request: fetchRates' attempt counter
    lastErr,    \* per request: fetchRates' lastErr
    data,       \* per request: the payload fetchRates returned
    resp,       \* per request: the response sent
    stats,      \* per request: cache reads, cache writes, upstream HTTP calls
    doneAt,     \* per request: the time the response was sent
    logged,     \* per request: what the handler wrote with console.warn
    clients,    \* the connections in use, each with one request at a time
    tried,      \* per request: what the latest upstream attempt ended with
    activeSessions, \* server.js: the Map token -> [username, expiresAt]
    issued,     \* server.js: the login responses sent, token -> expiresAt
    revoked,    \* server.js: the tokens whose logout has been served
    served,     \* server.js: the latest answer of a route behind authMiddleware
    timer,      \* per request: the deadline of fetchWithTimeout's armed timer
    started,    \* per request: the time the attempt in flight was issued
    events,     \* SecurityMetrics: the event list
    vquery,     \* validator under test: the raw query
    vres        \* validator under test: its result

vars == <<cache, now, apiKey, pc, req, vreq, attempt, lastErr, data, resp, stats,
          doneAt, logged, clients, tried, activeSessions, issued, revoked, served,
          timer, started, events, vquery, vres>>

\* the state of server.js
sessVars == <<activeSessions, issued, revoked, served>>

\* the timers of fetchWithTimeout
timeoutVars == <<timer, started>>

\* what the handler of api/convert.js leaves alone
sideVars == <<sessVars, timeoutVars, events>>

\* the state of api/convert.js, except the clock
handlerVars == <<cache, apiKey, pc, req, vreq, attempt, lastErr, data, resp, stats,
                 doneAt, logged, clients, tried>>

\* null and undefined
Null == [null |-> TRUE]

(***************************************************************************)
(* Bounds of the model.                                                    *)
(***************************************************************************)
MaxTime == 2

(***************************************************************************)
(* Configuration of api/convert.js.  CACHE_TTL is counted in clock ticks.  *)
(***************************************************************************)
CACHE_TTL == 1
RETRIES == 1
MAX_DECIMALS == 8
MAX_AMOUNT_DIGITS == 13
MAX_DOUBLE_DIGITS == 309

(***************************************************************************)
(* Characters and strings.                                                 *)
(***************************************************************************)
LowerCase == <<"a","b","c","d","e","f","g","h","i","j","k","l","m",
               "n","o","p","q","r","s","t","u","v","w","x","y","z">>

UpperCase == <<"A","B","C","D","E","F","G","H","I","J","K","L","M",
               "N","O","P","Q","R","S","T","U","V","W","X","Y","Z">>

Digits == <<"0","1","2","3","4","5","6","7","8","9">>

Range(s) == { s[i] : i \in DOMAIN s }

ToUpperChar(c) ==
    IF \E i \in DOMAIN LowerCase : LowerCase[i] = c
    THEN UpperCase[CHOOSE i \in DOMAIN LowerCase : LowerCase[i] = c]
    ELSE c

\* String.prototype.toUpperCase
toUpperCase(s) == [i \in DOMAIN s |-> ToUpperChar(s[i])]

\* String.prototype.trim, for the blank character
RECURSIVE TrimLeft(_)
TrimLeft(s) ==
    IF s # <<>> /\ Head(s) = " " THEN TrimLeft(Tail(s)) ELSE s

RECURSIVE TrimRight(_)
TrimRight(s) ==
    IF s # <<>> /\ s[Len(s)] = " " THEN TrimRight(SubSeq(s, 1, Len(s) - 1)) ELSE s

trim(s) == TrimRight(TrimLeft(s))

DigitValue(c) == (CHOOSE i \in DOMAIN Digits : Digits[i] = c) - 1

IsDigits(s) == s # <<>> /\ \A i \in DOMAIN s : s[i] \in Range(Digits)

(***************************************************************************)
(* Validation config (convert.js lines 6-14).                               *)
(***************************************************************************)
ALLOWED_QUERY_PARAMS == {"from", "to", "amount"}

\* /^[A-Z]{3}$/
ISO_CURRENCY_REGEX(s) == Len(s) = 3 /\ \A i \in DOMAIN s : s[i] \in Range(UpperCase)

ALLOWED_CURRENCIES == {
    <<"U","S","D">>, <<"E","U","R">>, <<"G","B","P">>, <<"J","P","Y">>,
    <<"A","U","D">>, <<"C","A","D">>, <<"C","H","F">>, <<"C","N","Y">>,
    <<"H","K","D">>, <<"N","Z","D">>, <<"S","E","K">>, <<"K","R","W">>,
    <<"S","G","D">>, <<"N","O","K">>, <<"M","X","N">>, <<"I","N","R">>,
    <<"R","U","B">>, <<"B","R","L">>, <<"Z","A","R">>, <<"T","R","Y">>,
    <<"D","K","K">>, <<"P","L","N">>, <<"T","H","B">>, <<"M","Y","R">>,
    <<"I","D","R">>, <<"H","U","F">>, <<"C","Z","K">>, <<"I","L","S">>,
    <<"P","H","P">>, <<"C","L","P">>, <<"A","E","D">>, <<"S","A","R">>,
    <<"C","O","P">>, <<"A","R","S">>, <<"V","N","D">>, <<"E","G","P">>,
    <<"N","G","N">>, <<"K","Z","T">>, <<"P","K","R">>, <<"B","D","T">> }

USD == <<"U","S","D">>
EUR == <<"E","U","R">>
KRW == <<"K","R","W">>

(***************************************************************************)
(* The amount literal.                                                     *)
(***************************************************************************)
HasSign(s) == s # <<>> /\ Head(s) \in {"+", "-"}

Unsigned(s) == IF HasSign(s) THEN Tail(s) ELSE s

DotPositions(s) == { i \in DOMAIN s : s[i] = "." }

\* rawAmt.split('.')[0] without its sign, and rawAmt.split('.')[1]
IntPart(s) ==
    LET u == Unsigned(s)
    IN  IF DotPositions(u) = {} THEN u
        ELSE SubSeq(u, 1, (CHOOSE i \in DotPositions(u) : \A j \in DotPositions(u) : i <= j) - 1)

FracPart(s) ==
    LET u == Unsigned(s)
    IN  IF DotPositions(u) = {} THEN <<>>
        ELSE SubSeq(u, (CHOOSE i \in DotPositions(u) : \A j \in DotPositions(u) : i <= j) + 1, Len(u))

\* /^[+-]?\d+(?:\.\d+)?$/
PlainDecimalRegex(s) ==
    LET u == Unsigned(s)
    IN  /\ Cardinality(DotPositions(u)) <= 1
        /\ IsDigits(IntPart(s))
        /\ (DotPositions(u) # {} => IsDigits(FracPart(s)))

RECURSIVE StripLeadingZeros(_)
StripLeadingZeros(s) ==
    IF Len(s) > 1 /\ Head(s) = "0" THEN StripLeadingZeros(Tail(s)) ELSE s

RECURSIVE StripTrailingZeros(_)
StripTrailingZeros(s) ==
    IF s # <<>> /\ s[Len(s)] = "0" THEN StripTrailingZeros(SubSeq(s, 1, Len(s) - 1)) ELSE s

\* the digits of 10^12
MaxAmountDigits == <<"1">> \o [i \in 1..(MAX_AMOUNT_DIGITS - 1) |-> "0"]

\* half the distance between 10^12 and the next double above it: 2^-14
HalfUlpAtMaxAmount == <<"0","0","0","0","6","1","0","3","5","1","5","6","2","5">>

\* 0.a <= 0.b for digit sequences a and b
RECURSIVE FracLeq(_, _)
FracLeq(a, b) ==
    IF a = <<>> THEN TRUE
    ELSE IF b = <<>> THEN \A i \in DOMAIN a : a[i] = "0"
    ELSE IF DigitValue(Head(a)) # DigitValue(Head(b)) THEN DigitValue(Head(a)) < DigitValue(Head(b))
    ELSE FracLeq(Tail(a), Tail(b))

\* Number(rawAmt) of a literal matching the regex: sign, integer digits
\* without leading zeros, fraction digits without trailing zeros.  A double
\* is written as the decimal literal it was read from; a literal just above
\* 10^12 is no double and reads as the nearest one, 10^12 (ties to even).
NumberOf(s) ==
    LET ip == StripLeadingZeros(IntPart(s))
        fp == StripTrailingZeros(FracPart(s))
    IN  [ neg |-> s # <<>> /\ Head(s) = "-",
          ip  |-> ip,
          fp  |-> IF ip = MaxAmountDigits /\ FracLeq(fp, HalfUlpAtMaxAmount) THEN <<>> ELSE fp ]

NumIsZero(n) == n.ip = <<"0">> /\ n.fp = <<>>

\* the magnitude test is missing
ExceedsMaxAmount_Never(n) == FALSE

\* Math.abs(num) > MAX_AMOUNT, with MAX_AMOUNT = 1e12 a 13-digit integer
ExceedsMaxAmount(n) ==
    \/ Len(n.ip) > MAX_AMOUNT_DIGITS
    \/ /\ Len(n.ip) = MAX_AMOUNT_DIGITS
       /\ \/ n.ip # MaxAmountDigits
          \/ n.fp # <<>>

\* the sign test is missing
NumIsNegative_Never(n) == FALSE

\* num < 0
NumIsNegative(n) == n.neg /\ ~NumIsZero(n)

\* the first digits of 2^1024 - 2^970, from which on a literal reads as
\* Infinity; the number has MAX_DOUBLE_DIGITS digits
InfinityFrom ==
    <<"1","7","9","7","6","9","3","1","3","4","8","6","2","3","1","5","8","0","7","9","3">>

\* Number.isFinite(num): a plain decimal literal overflows to Infinity only
\* past the largest double, a 309-digit integer.
NumIsFinite(n) ==
    \/ Len(n.ip) < MAX_DOUBLE_DIGITS
    \/ Len(n.ip) = MAX_DOUBLE_DIGITS /\ FracLeq(n.ip, InfinityFrom) /\ n.ip # InfinityFrom

(***************************************************************************)
(* Queries: a function from the parameter names present to raw strings.    *)
(***************************************************************************)
Has(query, k) == k \in DOMAIN query

\* !rawValue: the parameter is absent or the empty string
Falsy(query, k) == ~Has(query, k) \/ query[k] = <<>>

Err(msg) == [ok |-> FALSE, error |-> [msg |-> msg, arg |-> <<>>]]

ErrArg(msg, arg) == [ok |-> FALSE, error |-> [msg |-> msg, arg |-> arg]]

UnknownKeys(query) == { k \in DOMAIN query : k \notin ALLOWED_QUERY_PARAMS }

\* the check left out: unknown parameters are ignored
UnknownParamIgnored(query) == FALSE

\* lines 49-53
UnknownParamCheck(query) == UnknownKeys(query) # {}

\* the sign is tested before the magnitude
ValidateAmount_SignFirst(query, from, to) ==
    IF ~Has(query, "amount") THEN [ok |-> TRUE, from |-> from, to |-> to, amount |-> Null]
    ELSE
      LET rawAmt == trim(query["amount"])
          num    == NumberOf(rawAmt)
      IN  IF Len(rawAmt) = 0
            THEN Err("If provided, \"amount\" must not be empty.")
          ELSE IF ~PlainDecimalRegex(rawAmt)
            THEN Err("\"amount\" must be a plain decimal number without exponent.")
          ELSE IF ~NumIsFinite(num)
            THEN Err("Invalid numeric value for \"amount\".")
          ELSE IF NumIsNegative(num)
            THEN Err("\"amount\" must be zero or a positive value.")
          ELSE IF ExceedsMaxAmount(num)
            THEN Err("\"amount\" is out of allowed range.")
          ELSE IF Len(FracPart(rawAmt)) > MAX_DECIMALS
            THEN Err("\"amount\" may have at most 8 decimal places.")
          ELSE [ok |-> TRUE, from |-> from, to |-> to, amount |-> num]

\* lines 72-96: the amount, once from and to are accepted
ValidateAmount(query, from, to) ==
    IF ~Has(query, "amount") THEN [ok |-> TRUE, from |-> from, to |-> to, amount |-> Null]
    ELSE
      LET rawAmt == trim(query["amount"])
          num    == NumberOf(rawAmt)
      IN  IF Len(rawAmt) = 0
            THEN Err("If provided, \"amount\" must not be empty.")
          ELSE IF ~PlainDecimalRegex(rawAmt)
            THEN Err("\"amount\" must be a plain decimal number without exponent.")
          ELSE IF ~NumIsFinite(num)
            THEN Err("Invalid numeric value for \"amount\".")
          ELSE IF ExceedsMaxAmount(num)
            THEN Err("\"amount\" is out of allowed range.")
          ELSE IF NumIsNegative(num)
            THEN Err("\"amount\" must be zero or a positive value.")
          ELSE IF Len(FracPart(rawAmt)) > MAX_DECIMALS
            THEN Err("\"amount\" may have at most 8 decimal places.")
          ELSE [ok |-> TRUE, from |-> from, to |-> to, amount |-> num]

validateAndNormalizeQuery(query) ==
    IF UnknownParamCheck(query)
      THEN ErrArg("Unexpected parameter", <<CHOOSE k \in UnknownKeys(query) : TRUE>>)
    ELSE IF Falsy(query, "from") \/ Falsy(query, "to")
      THEN Err("Missing required query parameters \"from\" and \"to\".")
    ELSE
      LET from == toUpperCase(query["from"])
          to   == toUpperCase(query["to"])
      IN  IF ~ISO_CURRENCY_REGEX(from) \/ ~ISO_CURRENCY_REGEX(to)
            THEN Err("Currency codes must be 3-letter ISO codes (A-Z).")
          ELSE IF from \notin ALLOWED_CURRENCIES \/ to \notin ALLOWED_CURRENCIES
            THEN Err("Currency not supported. Use a standard ISO 4217 currency code.")
          ELSE ValidateAmount(query, from, to)

(***************************************************************************)
(* Numbers: [m, e] is m / 10^e, kept with no trailing zero in m.           *)
(***************************************************************************)
RECURSIVE Pow10(_)
Pow10(k) == IF k = 0 THEN 1 ELSE 10 * Pow10(k - 1)

RECURSIVE Normalize(_, _)
Normalize(m, e) ==
    IF e > 0 /\ m % 10 = 0 THEN Normalize(m \div 10, e - 1) ELSE [m |-> m, e |-> e]

Dec(m, e) == Normalize(m, e)

\* the value of the first k digits of s
RECURSIVE DigitsValueUpTo(_, _)
DigitsValueUpTo(s, k) ==
    IF k = 0 THEN 0 ELSE 10 * DigitsValueUpTo(s, k - 1) + DigitValue(s[k])

DigitsValue(s) == DigitsValueUpTo(s, Len(s))

\* the numeric value of a validated amount
DecOfNum(n) ==
    LET mag == DigitsValue(n.ip \o n.fp)
    IN  Dec(IF n.neg THEN 0 - mag ELSE mag, Len(n.fp))

Mul(a, b) == Dec(a.m * b.m, a.e + b.e)

\* The decimal values of the model that lie halfway between two multiples
\* of 10^-6 and whose double is the smaller neighbour: 0.0000005 reads as
\* 4.99999999999999977e-7.  No such halfway value is itself a double.
HalfwayReadBelow == { Dec(5, 7) }

\* the decimal rounded to the given digits, halves away from zero (x is
\* never negative here)
RoundHalfUp(x, digits) ==
    IF x.e <= digits THEN x
    ELSE LET unit == Pow10(x.e - digits)
         IN  Dec((x.m + unit \div 2) \div unit, digits)

\* Number(x.toFixed(digits)): the multiple of 10^-digits nearest to the
\* double x.  The double of a halfway decimal is a little below or above
\* it, and that decides the direction.
ToFixed(x, digits) ==
    IF x.e > digits /\ x \in HalfwayReadBelow
    THEN Dec(x.m \div Pow10(x.e - digits), digits)
    ELSE RoundHalfUp(x, digits)

\* an absent amount counts as 1
ConvertedAmount_DefaultsToOne(amount, rate) ==
    IF amount = Null THEN rate ELSE ToFixed(Mul(DecOfNum(amount), rate), 6)

\* amount !== null ? Number((amount * rate).toFixed(6)) : null
ConvertedAmount(amount, rate) ==
    IF amount = Null THEN Null ELSE ToFixed(Mul(DecOfNum(amount), rate), 6)

(***************************************************************************)
(* utils/fallbackRates.js                                                  *)
(***************************************************************************)
GBP == <<"G","B","P">>
JPY == <<"J","P","Y">>
CAD == <<"C","A","D">>
AUD == <<"A","U","D">>
CHF == <<"C","H","F">>
CNY == <<"C","N","Y">>
INR == <<"I","N","R">>
BRL == <<"B","R","L">>
PHP == <<"P","H","P">>
MXN == <<"M","X","N">>

FALLBACK_RATES ==
    (USD :> (EUR :> Dec(85, 2) @@ GBP :> Dec(73, 2) @@ JPY :> Dec(110, 0) @@
             CAD :> Dec(125, 2) @@ AUD :> Dec(135, 2) @@ CHF :> Dec(92, 2) @@
             CNY :> Dec(645, 2) @@ INR :> Dec(75, 0) @@ BRL :> Dec(52, 1) @@
             PHP :> Dec(582, 1) @@ KRW :> Dec(1340, 0) @@ MXN :> Dec(172, 1))) @@
    (EUR :> (USD :> Dec(118, 2) @@ GBP :> Dec(86, 2) @@ JPY :> Dec(129, 0) @@
             CAD :> Dec(147, 2) @@ AUD :> Dec(159, 2) @@ CHF :> Dec(108, 2) @@
             CNY :> Dec(759, 2) @@ INR :> Dec(88, 0) @@ BRL :> Dec(61, 1) @@
             PHP :> Dec(635, 1))) @@
    (PHP :> (USD :> Dec(17, 3) @@ EUR :> Dec(16, 3) @@ JPY :> Dec(19, 1) @@
             GBP :> Dec(14, 3) @@ AUD :> Dec(23, 3))) @@
    (JPY :> (USD :> Dec(91, 4) @@ EUR :> Dec(77, 4) @@ GBP :> Dec(67, 4) @@
             PHP :> Dec(53, 2) @@ INR :> Dec(68, 2)))

\* typeof base[toCurrency] === 'number'
HasFallbackRate(fromCurrency, toCurrency) ==
    /\ fromCurrency \in DOMAIN FALLBACK_RATES
    /\ toCurrency \in DOMAIN FALLBACK_RATES[fromCurrency]

\* a pair without entry takes the rate configured for the reverse pair
getFallbackRate_UsesReverse(fromCurrency, toCurrency) ==
    [ rate        |-> IF HasFallbackRate(fromCurrency, toCurrency)
                      THEN FALLBACK_RATES[fromCurrency][toCurrency]
                      ELSE IF HasFallbackRate(toCurrency, fromCurrency)
                      THEN FALLBACK_RATES[toCurrency][fromCurrency]
                      ELSE Dec(1, 0),
      lastUpdated |-> "Date()",
      defaulted   |-> ~HasFallbackRate(fromCurrency, toCurrency)
                      /\ ~HasFallbackRate(toCurrency, fromCurrency) ]

\* lastUpdated is the wall-clock time of the call, kept as an opaque stamp
getFallbackRate(fromCurrency, toCurrency) ==
    [ rate        |-> IF HasFallbackRate(fromCurrency, toCurrency)
                      THEN FALLBACK_RATES[fromCurrency][toCurrency]
                      ELSE Dec(1, 0),
      lastUpdated |-> "Date()",
      defaulted   |-> ~HasFallbackRate(fromCurrency, toCurrency) ]

(***************************************************************************)
(* The cache (convert.js lines 101-119).                                   *)
(***************************************************************************)
\* the key does not name the base: every base shares one entry
getCacheKey_Shared(fromCurrency) == <<"latest:">>

getCacheKey(fromCurrency) == <<"latest:">> \o fromCurrency

\* an entry aged exactly the TTL counts as expired
CacheExpired_AtTTL(c, key, t) == t - c[key].ts >= CACHE_TTL

\* line 109
CacheExpired(c, key, t) == t - c[key].ts > CACHE_TTL

\* what readFromCache returns
readFromCache(c, fromCurrency, t) ==
    LET key == getCacheKey(fromCurrency)
    IN  IF key \notin DOMAIN c THEN Null
        ELSE IF CacheExpired(c, key, t) THEN Null
        ELSE c[key].data

\* an expired entry is left in the Map
cacheAfterRead_KeepsExpired(c, fromCurrency, t) == c

\* the Map after readFromCache: an expired entry is deleted
cacheAfterRead(c, fromCurrency, t) ==
    LET key == getCacheKey(fromCurrency)
    IN  IF key \in DOMAIN c /\ CacheExpired(c, key, t)
        THEN [k \in DOMAIN c \ {key} |-> c[k]]
        ELSE c

\* an entry that exists is kept: the first write wins
writeToCache_KeepsExisting(c, fromCurrency, payload, t) ==
    LET key == getCacheKey(fromCurrency)
    IN  [k \in DOMAIN c \cup {key} |-> IF k = key /\ k \notin DOMAIN c
                                         THEN [ts |-> t, data |-> payload] ELSE c[k]]

\* the Map after writeToCache
writeToCache(c, fromCurrency, payload, t) ==
    LET key == getCacheKey(fromCurrency)
    IN  [k \in DOMAIN c \cup {key} |-> IF k = key THEN [ts |-> t, data |-> payload] ELSE c[k]]

\* cached && typeof cached.conversion_rates?.[toCurrency] === 'number'
HasNumericRate(payload, toCurrency) ==
    /\ payload # Null
    /\ toCurrency \in DOMAIN payload.conversion_rates

(***************************************************************************)
(* Inputs: requests and upstream behaviour.                                *)
(***************************************************************************)
Reqs == {"r1", "r2"}

GET == <<"G","E","T">>

MethodInputs == { GET, <<"g","e","t">>, <<"P","O","S","T">>, <<>> }

FromInputs == { USD, EUR, <<"X","Y","Z">>, <<"U","S">> }

ToInputs == { USD, EUR, <<"U","$","D">>, <<"X","Y","Z">> }

ValidAmountInputs == {
    <<"1","0","0">>,
    <<"0",".","0","0","0","0","0","0","5">>,
    <<"0",".","1","2","3","4","5","6","7","8">> }

AmountInputs == ValidAmountInputs \cup {
    <<>>,
    <<"1","e","3">>,
    <<"-","5">>,
    <<"0",".","1","2","3","4","5","6","7","8","9">>,
    <<"a","b","c">>,
    <<"9","9","9","9","9","9","9","9","9","9","9","9","9">> }

\* a query with the given parameter names present
MkQuery(keys, f, t, a) ==
    [k \in keys |-> CASE k = "from" -> f
                      [] k = "to" -> t
                      [] k = "amount" -> a
                      [] OTHER -> <<"1">>]

Lower(code) == [i \in DOMAIN code |-> LowerCase[CHOOSE j \in DOMAIN UpperCase : UpperCase[j] = code[i]]]

\* well-formed queries, with and without an amount, in either letter case
ValidQueries ==
    { MkQuery({"from", "to", "amount"}, f, t, a) :
        f \in {Lower(USD), EUR}, t \in {USD, Lower(EUR)},
        a \in { <<"1","0","0">>, <<"0",".","1","2","3","4","5","6","7","8">> } } \cup
    { MkQuery({"from", "to", "amount"}, Lower(USD), USD, <<"0",".","0","0","0","0","0","0","5">>) } \cup
    { MkQuery({"from", "to"}, f, t, <<>>) : f \in {Lower(USD), EUR}, t \in {USD, Lower(EUR)} }

\* queries with one thing wrong
InvalidQueries ==
    { MkQuery({"from", "to", "amount"}, USD, EUR, a) : a \in AmountInputs \ ValidAmountInputs } \cup
    { MkQuery({"from", "to"}, f, EUR, <<>>) : f \in FromInputs \ ALLOWED_CURRENCIES } \cup
    { MkQuery({"from", "to"}, USD, t, <<>>) : t \in ToInputs \ ALLOWED_CURRENCIES } \cup
    { MkQuery({"from", "to", "amount", "callback"}, USD, EUR, <<"1","0","0">>),
      MkQuery({"from", "amount"}, USD, EUR, <<"1","0","0">>),
      MkQuery({"from", "to"}, USD, <<>>, <<>>) }

HandlerQueries == ValidQueries \cup InvalidQueries

\* requests: every method with one query, every query with GET
HandlerInputs ==
    { [method |-> m, query |-> MkQuery({"from", "to"}, USD, EUR, <<>>)] : m \in MethodInputs } \cup
    { [method |-> GET, query |-> q] : q \in HandlerQueries }

\* the requests of the concurrent workload
ConcurrentInputs ==
    { [method |-> GET, query |-> q] :
        q \in { MkQuery({"from", "to"}, USD, EUR, <<>>),
                MkQuery({"from", "to", "amount"}, USD, USD, <<"1","0","0">>),
                MkQuery({"from", "to"}, USD, <<"X","Y","Z">>, <<>>) } }

\* upstream payloads for a base currency: the base's own rate is 1
PayloadA(base) ==
    [ result |-> "success", time_last_update_utc |-> "A",
      conversion_rates |-> (base :> Dec(1, 0)) @@ (USD :> Dec(118, 2) @@ EUR :> Dec(85, 2)) ]

PayloadB(base) ==
    [ result |-> "success", time_last_update_utc |-> "B",
      conversion_rates |-> (base :> Dec(1, 0)) @@ (USD :> Dec(12, 1) @@ EUR :> Dec(9, 1)) ]

\* a payload without a rate for EUR (unless EUR is the base)
PayloadP(base) ==
    [ result |-> "success", time_last_update_utc |-> "P",
      conversion_rates |-> (base :> Dec(1, 0)) @@ (USD :> Dec(118, 2)) ]

\* a payload whose rate mapping is the empty object
PayloadE(base) ==
    [ result |-> "success", time_last_update_utc |-> "E",
      conversion_rates |-> [c \in {} |-> Dec(1, 0)] ]

\* a payload without the success marker, and one without the rate mapping
PayloadNoMarker(base) ==
    [ result |-> "error", time_last_update_utc |-> "M",
      conversion_rates |-> (base :> Dec(1, 0)) ]

PayloadNoRates(base) == [ result |-> "success", time_last_update_utc |-> "N" ]

OkPayloads(base) ==
    { PayloadA(base), PayloadB(base), PayloadP(base), PayloadE(base),
      PayloadNoMarker(base), PayloadNoRates(base) }

\* line 158: data?.result === 'success' and data?.conversion_rates is truthy;
\* an object is truthy whatever it holds
SuccessShape(payload) ==
    /\ payload.result = "success"
    /\ "conversion_rates" \in DOMAIN payload

\* what one upstream attempt can end with
Outcomes(base) ==
    { [kind |-> "ok", status |-> 200, payload |-> p] : p \in OkPayloads(base) } \cup
    { [kind |-> "badjson", status |-> 200, payload |-> Null],
      [kind |-> "status", status |-> 503, payload |-> Null],
      [kind |-> "status", status |-> 429, payload |-> Null],
      [kind |-> "status", status |-> 403, payload |-> Null],
      [kind |-> "abort", status |-> 0, payload |-> Null],
      [kind |-> "network", status |-> 0, payload |-> Null] }

\* the error a failed attempt throws
ErrorOf(outcome) ==
    CASE outcome.kind = "status"    -> [name |-> "Error", message |-> "Upstream status", status |-> outcome.status]
      [] outcome.kind = "ok"        -> [name |-> "Error", message |-> "Unexpected upstream payload", status |-> 0]
      [] outcome.kind = "badjson"   -> [name |-> "SyntaxError", message |-> "Unexpected token", status |-> 0]
      [] outcome.kind = "abort"     -> [name |-> "AbortError", message |-> "This operation was aborted", status |-> 0]
      [] OTHER                      -> [name |-> "TypeError", message |-> "fetch failed", status |-> 0]

\* every error status is retryable
StatusRetryable_AnyError(status) == status >= 400

\* line 152: res.status >= 500 || res.status === 429
StatusRetryable(status) == status >= 500 \/ status = 429

\* line 168: isAbort || /status (5\d\d|429)/ || /Unexpected upstream payload/
ErrorRetryable(err) ==
    \/ err.name = "AbortError"
    \/ err.message = "Upstream status" /\ (err.status \in 500..599 \/ err.status = 429)
    \/ err.message = "Unexpected upstream payload"

(***************************************************************************)
(* Responses.                                                              *)
(***************************************************************************)
Failure(status, error) == [success |-> FALSE, status |-> status, error |-> error]

Success(rate, q, lastUpdated, source) ==
    [ success |-> TRUE, status |-> 200, rate |-> rate,
      convertedAmount |-> ConvertedAmount(q.amount, rate),
      from |-> q.from, to |-> q.to, lastUpdated |-> lastUpdated, source |-> source ]

PairUnavailable(q) ==
    Failure(400, [msg |-> "Exchange rate not available.", arg |-> q.from \o q.to])

NoStats == [reads |-> 0, writes |-> 0, calls |-> 0]

\* validateAndNormalizeQuery on the requests of the model, computed once
Validated ==
    [ query \in { i.query : i \in HandlerInputs \cup ConcurrentInputs } |->
        validateAndNormalizeQuery(query) ]

\* a request starts on connection r: the previous request's record is dropped
Begin(r, q, st) ==
    /\ vreq' = [vreq EXCEPT ![r] = q]
    /\ stats' = [stats EXCEPT ![r] = st]
    /\ attempt' = [attempt EXCEPT ![r] = 0]
    /\ lastErr' = [lastErr EXCEPT ![r] = Null]
    /\ data' = [data EXCEPT ![r] = Null]
    /\ tried' = [tried EXCEPT ![r] = Null]

\* console.warn of the handler; entry is Null when the path logs nothing
Log(r, entry) == logged' = [logged EXCEPT ![r] = entry]

\* the response leaves; the request is over
Respond(r, response) ==
    /\ pc' = [pc EXCEPT ![r] = "done"]
    /\ resp' = [resp EXCEPT ![r] = response]
    /\ doneAt' = [doneAt EXCEPT ![r] = now]

(***************************************************************************)
(* handler, lines 182-228: up to the first await.                          *)
(***************************************************************************)
MethodNotAllowed(method) == method # <<>> /\ toUpperCase(method) # GET

\* lines 183-185
RejectMethod(r, method) ==
    /\ MethodNotAllowed(method)
    /\ Begin(r, Null, NoStats)
    /\ Respond(r, Failure(405, [msg |-> "Method Not Allowed. Use GET.", arg |-> <<>>]))
    /\ Log(r, Null)
    /\ UNCHANGED cache

\* lines 187-191
RejectQuery(r, validation) ==
    /\ ~validation.ok
    /\ Begin(r, Null, NoStats)
    /\ Respond(r, Failure(400, validation.error))
    /\ Log(r, [warn |-> "Validation failed for /api/convert:", error |-> validation.error])
    /\ UNCHANGED cache

\* the FallbackRate object is spread into the body, flag included
FallbackResponse_WithFlag(q) ==
    Success(getFallbackRate(q.from, q.to).rate, q, getFallbackRate(q.from, q.to).lastUpdated, "fallback")
        @@ [defaulted |-> getFallbackRate(q.from, q.to).defaulted]

\* lines 201-210 and 284-294: the answer from the fallback table
FallbackResponse(q) ==
    Success(getFallbackRate(q.from, q.to).rate, q, getFallbackRate(q.from, q.to).lastUpdated, "fallback")

\* the rate is looked up under the base instead of the target
CachedResponse_BaseRate(q, cached) ==
    Success(cached.conversion_rates[q.from], q, cached.time_last_update_utc, "cache")

\* lines 216-227: the answer from a cached payload
CachedResponse(q, cached) ==
    Success(cached.conversion_rates[q.to], q, cached.time_last_update_utc, "cache")

\* the early return is missing: a request without credential goes on to the
\* cache and the upstream
NoApiKey_GoesUpstream(r, q) ==
    /\ ~apiKey
    /\ Begin(r, q, [reads |-> 1, writes |-> 0, calls |-> 1])
    /\ cache' = cacheAfterRead(cache, q.from, now)
    /\ pc' = [pc EXCEPT ![r] = "fetch"]
    /\ resp' = [resp EXCEPT ![r] = Null]
    /\ Log(r, Null)
    /\ UNCHANGED doneAt

\* lines 195-211
NoApiKey(r, q) ==
    /\ ~apiKey
    /\ Begin(r, q, NoStats)
    /\ Respond(r, FallbackResponse(q))
    /\ Log(r, [ warn |-> "Missing EXCHANGE_RATE_API_KEY environment variable; using fallback data",
                fallbackDefaulted |-> getFallbackRate(q.from, q.to).defaulted ])
    /\ UNCHANGED cache

\* lines 213-228
CacheHit(r, q) ==
    LET cached == readFromCache(cache, q.from, now)
    IN  /\ apiKey
        /\ HasNumericRate(cached, q.to)
        /\ Begin(r, q, [reads |-> 1, writes |-> 0, calls |-> 0])
        /\ cache' = cacheAfterRead(cache, q.from, now)
        /\ Respond(r, CachedResponse(q, cached))
        /\ Log(r, Null)

\* the upstream is asked whatever the cache holds
CacheMiss_IgnoresCache(r, q) ==
    /\ apiKey
    /\ Begin(r, q, [reads |-> 1, writes |-> 0, calls |-> 1])
    /\ cache' = cacheAfterRead(cache, q.from, now)
    /\ pc' = [pc EXCEPT ![r] = "fetch"]
    /\ resp' = [resp EXCEPT ![r] = Null]
    /\ Log(r, Null)
    /\ UNCHANGED doneAt

\* lines 213-232 and 134-141: a miss; fetchRates issues its first attempt
CacheMiss(r, q) ==
    LET cached == readFromCache(cache, q.from, now)
    IN  /\ apiKey
        /\ ~HasNumericRate(cached, q.to)
        /\ Begin(r, q, [reads |-> 1, writes |-> 0, calls |-> 1])
        /\ cache' = cacheAfterRead(cache, q.from, now)
        /\ pc' = [pc EXCEPT ![r] = "fetch"]
        /\ resp' = [resp EXCEPT ![r] = Null]
        /\ Log(r, Null)
        /\ UNCHANGED doneAt

Handle(r, method, query) ==
    /\ pc[r] \in {"idle", "done"}
    /\ req' = [req EXCEPT ![r] = [method |-> method, query |-> query]]
    /\ UNCHANGED <<now, apiKey, clients>>
    /\ \/ RejectMethod(r, method)
       \/ /\ ~MethodNotAllowed(method)
          /\ LET validation == Validated[query]
                 q == [from |-> validation.from, to |-> validation.to, amount |-> validation.amount]
             IN  \/ RejectQuery(r, validation)
                 \/ /\ validation.ok
                    /\ (NoApiKey(r, q) \/ CacheHit(r, q) \/ CacheMiss(r, q))

(***************************************************************************)
(* fetchRates, lines 139-179, and the handler after it, lines 232-295.     *)
(***************************************************************************)
\* a retryable status is retried once more than RETRIES allows
RetryAtOnce_OnceMore(r, outcome) ==
    /\ outcome.kind = "status"
    /\ StatusRetryable(outcome.status) /\ attempt[r] <= RETRIES
    /\ attempt' = [attempt EXCEPT ![r] = attempt[r] + 1]
    /\ stats' = [stats EXCEPT ![r].calls = stats[r].calls + 1]
    /\ UNCHANGED <<cache, pc, lastErr, data, resp, doneAt, logged>>

\* the retry drops the entry of the base
RetryAtOnce_ClearsEntry(r, outcome) ==
    /\ outcome.kind = "status"
    /\ StatusRetryable(outcome.status) /\ attempt[r] # RETRIES
    /\ attempt' = [attempt EXCEPT ![r] = attempt[r] + 1]
    /\ stats' = [stats EXCEPT ![r].calls = stats[r].calls + 1]
    /\ cache' = [k \in DOMAIN cache \ {getCacheKey(vreq[r].from)} |-> cache[k]]
    /\ UNCHANGED <<pc, lastErr, data, resp, doneAt, logged>>

\* lines 142-155 and 176: a retryable status with attempts left falls
\* through to attempt++ and the next attempt
RetryAtOnce(r, outcome) ==
    /\ outcome.kind = "status"
    /\ StatusRetryable(outcome.status) /\ attempt[r] # RETRIES
    /\ attempt' = [attempt EXCEPT ![r] = attempt[r] + 1]
    /\ stats' = [stats EXCEPT ![r].calls = stats[r].calls + 1]
    /\ UNCHANGED <<cache, pc, lastErr, data, resp, doneAt, logged>>

\* a missing pair is answered from the fallback table
UpstreamResponse_FallsBack(q, payload) ==
    IF q.to \in DOMAIN payload.conversion_rates
    THEN Success(payload.conversion_rates[q.to], q, payload.time_last_update_utc, "upstream")
    ELSE FallbackResponse(q)

\* the rate is looked up under the base instead of the target
UpstreamResponse_BaseRate(q, payload) ==
    IF q.to \in DOMAIN payload.conversion_rates
    THEN Success(payload.conversion_rates[q.from], q, payload.time_last_update_utc, "upstream")
    ELSE PairUnavailable(q)

\* lines 237-256: the answer from the payload fetchRates returned
UpstreamResponse(q, payload) ==
    IF q.to \in DOMAIN payload.conversion_rates
    THEN Success(payload.conversion_rates[q.to], q, payload.time_last_update_utc, "upstream")
    ELSE PairUnavailable(q)

\* a table without the target's rate is not cached
FetchSucceeds_CachesUsableOnly(r, outcome) ==
    LET q == vreq[r]
        payload == outcome.payload
        usable == q.to \in DOMAIN payload.conversion_rates
    IN  /\ outcome.kind = "ok" /\ SuccessShape(payload)
        /\ data' = [data EXCEPT ![r] = payload]
        /\ cache' = IF usable THEN writeToCache(cache, q.from, payload, now) ELSE cache
        /\ stats' = [stats EXCEPT ![r].writes = stats[r].writes + (IF usable THEN 1 ELSE 0)]
        /\ Respond(r, UpstreamResponse(q, payload))
        /\ Log(r, IF usable THEN Null
                  ELSE [warn |-> "Rate missing for pair", fromCurrency |-> q.from, toCurrency |-> q.to])
        /\ UNCHANGED <<attempt, lastErr>>

\* lines 157-161 and 232-256: fetchRates returns the payload
FetchSucceeds(r, outcome) ==
    LET q == vreq[r]
        payload == outcome.payload
    IN  /\ outcome.kind = "ok" /\ SuccessShape(payload)
        /\ data' = [data EXCEPT ![r] = payload]
        /\ cache' = writeToCache(cache, q.from, payload, now)
        /\ stats' = [stats EXCEPT ![r].writes = stats[r].writes + 1]
        /\ Respond(r, UpstreamResponse(q, payload))
        /\ Log(r, IF q.to \in DOMAIN payload.conversion_rates THEN Null
                  ELSE [warn |-> "Rate missing for pair", fromCurrency |-> q.from, toCurrency |-> q.to])
        /\ UNCHANGED <<attempt, lastErr>>

\* whether the attempt ends in the catch block of line 163
Throws(r, outcome) ==
    /\ outcome.kind = "ok" => ~SuccessShape(outcome.payload)
    /\ ~(outcome.kind = "status" /\ StatusRetryable(outcome.status) /\ attempt[r] # RETRIES)

\* the backoff is taken whatever the attempt counter
CatchAndBackoff_AlsoAtLast(r, outcome) ==
    /\ Throws(r, outcome)
    /\ ErrorRetryable(ErrorOf(outcome))
    /\ lastErr' = [lastErr EXCEPT ![r] = ErrorOf(outcome)]
    /\ pc' = [pc EXCEPT ![r] = "backoff"]
    /\ UNCHANGED <<cache, attempt, data, resp, stats, doneAt, logged>>

\* lines 163-174: a retryable error with attempts left waits for the backoff
CatchAndBackoff(r, outcome) ==
    /\ Throws(r, outcome)
    /\ ErrorRetryable(ErrorOf(outcome)) /\ attempt[r] # RETRIES
    /\ lastErr' = [lastErr EXCEPT ![r] = ErrorOf(outcome)]
    /\ pc' = [pc EXCEPT ![r] = "backoff"]
    /\ UNCHANGED <<cache, attempt, data, resp, stats, doneAt, logged>>

\* the upstream failure surfaces when the cache has nothing
DegradedResponse_ServiceUnavailable(q, cached) ==
    IF HasNumericRate(cached, q.to)
    THEN Success(cached.conversion_rates[q.to], q, cached.time_last_update_utc, "cache-fallback")
    ELSE Failure(503, [msg |-> "Exchange rate service unavailable.", arg |-> <<>>])

\* the degraded cache read is left out
DegradedResponse_SkipsCache(q, cached) == FallbackResponse(q)

\* lines 260-294: the answer after fetchRates has thrown
DegradedResponse(q, cached) ==
    IF HasNumericRate(cached, q.to)
    THEN Success(cached.conversion_rates[q.to], q, cached.time_last_update_utc, "cache-fallback")
    ELSE FallbackResponse(q)

\* lines 265 and 278-283: what the catch block logs about the failure
DegradedLog(q, cached, err) ==
    IF HasNumericRate(cached, q.to)
    THEN [ warn |-> "Using cached data due to upstream failure",
           error |-> [message |-> err.message, status |-> err.status] ]
    ELSE [ warn |-> "Upstream fetch failed, using fallback data",
           message |-> [message |-> err.message, status |-> err.status],
           timeout |-> err.name = "AbortError",
           fallbackDefaulted |-> getFallbackRate(q.from, q.to).defaulted ]

\* an upstream status is passed on to the client
FetchFails_PassesStatusOn(r, outcome) ==
    LET q == vreq[r]
        cached == readFromCache(cache, q.from, now)
    IN  /\ Throws(r, outcome)
        /\ ~(ErrorRetryable(ErrorOf(outcome)) /\ attempt[r] # RETRIES)
        /\ lastErr' = [lastErr EXCEPT ![r] = ErrorOf(outcome)]
        /\ cache' = cacheAfterRead(cache, q.from, now)
        /\ stats' = [stats EXCEPT ![r].reads = stats[r].reads + 1]
        /\ Respond(r, IF outcome.kind = "status"
                      THEN Failure(502, [msg |-> "Upstream status", arg |-> <<>>])
                      ELSE DegradedResponse(q, cached))
        /\ Log(r, DegradedLog(q, cached, ErrorOf(outcome)))
        /\ UNCHANGED <<attempt, data>>

\* the first error caught is kept and thrown
FetchFails_FirstError(r, outcome) ==
    LET q == vreq[r]
        cached == readFromCache(cache, q.from, now)
        err == IF lastErr[r] # Null THEN lastErr[r] ELSE ErrorOf(outcome)
    IN  /\ Throws(r, outcome)
        /\ ~(ErrorRetryable(ErrorOf(outcome)) /\ attempt[r] # RETRIES)
        /\ lastErr' = [lastErr EXCEPT ![r] = err]
        /\ cache' = cacheAfterRead(cache, q.from, now)
        /\ stats' = [stats EXCEPT ![r].reads = stats[r].reads + 1]
        /\ Respond(r, DegradedResponse(q, cached))
        /\ Log(r, DegradedLog(q, cached, err))
        /\ UNCHANGED <<attempt, data>>

\* the failed fetch drops the entry of the base
FetchFails_EvictsEntry(r, outcome) ==
    LET q == vreq[r]
        cached == readFromCache(cache, q.from, now)
    IN  /\ Throws(r, outcome)
        /\ ~(ErrorRetryable(ErrorOf(outcome)) /\ attempt[r] # RETRIES)
        /\ lastErr' = [lastErr EXCEPT ![r] = ErrorOf(outcome)]
        /\ cache' = [k \in DOMAIN cache \ {getCacheKey(q.from)} |-> cache[k]]
        /\ stats' = [stats EXCEPT ![r].reads = stats[r].reads + 1]
        /\ Respond(r, DegradedResponse(q, cached))
        /\ Log(r, DegradedLog(q, cached, ErrorOf(outcome)))
        /\ UNCHANGED <<attempt, data>>

\* lines 169-170, 179 and 257-295: fetchRates throws lastErr; the handler
\* reads the cache again and answers from it or from the fallback table
FetchFails(r, outcome) ==
    LET q == vreq[r]
        cached == readFromCache(cache, q.from, now)
    IN  /\ Throws(r, outcome)
        /\ ~(ErrorRetryable(ErrorOf(outcome)) /\ attempt[r] # RETRIES)
        /\ lastErr' = [lastErr EXCEPT ![r] = ErrorOf(outcome)]
        /\ cache' = cacheAfterRead(cache, q.from, now)
        /\ stats' = [stats EXCEPT ![r].reads = stats[r].reads + 1]
        /\ Respond(r, DegradedResponse(q, cached))
        /\ Log(r, DegradedLog(q, cached, ErrorOf(outcome)))
        /\ UNCHANGED <<attempt, data>>

\* what the handler's fetchRates call has seen of its latest attempt
Tried(outcome) ==
    [ kind |-> outcome.kind, status |-> outcome.status,
      accepted |-> outcome.kind = "ok" /\ SuccessShape(outcome.payload) ]

AttemptResolves(r, outcome) ==
    /\ pc[r] = "fetch"
    /\ UNCHANGED <<now, apiKey, clients, req, vreq>>
    /\ tried' = [tried EXCEPT ![r] = Tried(outcome)]
    /\ \/ RetryAtOnce(r, outcome)
       \/ FetchSucceeds(r, outcome)
       \/ CatchAndBackoff(r, outcome)
       \/ FetchFails(r, outcome)

\* line 173: the backoff before the attempt that follows attempt a
delayMs(a) == 200 * (2 ^ a)

\* the backoff timer never fires
BackoffElapses_Never(r) == FALSE

\* lines 173-176: the delay is over; attempt++ and the next attempt
BackoffElapses(r) ==
    /\ pc[r] = "backoff"
    /\ pc' = [pc EXCEPT ![r] = "fetch"]
    /\ attempt' = [attempt EXCEPT ![r] = attempt[r] + 1]
    /\ stats' = [stats EXCEPT ![r].calls = stats[r].calls + 1]
    /\ UNCHANGED <<cache, now, apiKey, clients, req, vreq, lastErr, data, resp, doneAt, logged,
                   tried>>

Tick ==
    /\ now < MaxTime
    /\ now' = now + 1
    /\ UNCHANGED <<cache, apiKey, clients, pc, req, vreq, attempt, lastErr, data, resp, stats, doneAt,
                   logged, tried>>

EmptyCache == [k \in {} |-> Null]

\* the timer of a request is not armed
NoTimer == 0 - 1

\* server.js line 110: new Map()
NoSessions == [token \in {} |-> Null]

\* the state after the module is loaded, with the given connections
Start(conns) ==
    /\ cache = EmptyCache
    /\ now = 0
    /\ apiKey \in BOOLEAN
    /\ clients = conns
    /\ pc = [r \in Reqs |-> "idle"]
    /\ req = [r \in Reqs |-> Null]
    /\ vreq = [r \in Reqs |-> Null]
    /\ attempt = [r \in Reqs |-> 0]
    /\ lastErr = [r \in Reqs |-> Null]
    /\ data = [r \in Reqs |-> Null]
    /\ resp = [r \in Reqs |-> Null]
    /\ stats = [r \in Reqs |-> NoStats]
    /\ doneAt = [r \in Reqs |-> 0]
    /\ logged = [r \in Reqs |-> Null]
    /\ tried = [r \in Reqs |-> Null]
    /\ activeSessions = NoSessions
    /\ issued = NoSessions
    /\ revoked = {}
    /\ served = Null
    /\ timer = [r \in Reqs |-> NoTimer]
    /\ started = [r \in Reqs |-> 0]
    /\ events = <<>>

\* the requests a connection may send: the full set on the first connection
\* when it is the only one, a smaller one when two connections run
\* concurrently and when the second connection is followed to its end
InputsOf(conns) == IF conns = {"r1"} THEN HandlerInputs ELSE ConcurrentInputs

Next ==
    \/ \E r \in clients, input \in InputsOf(clients) :
          Handle(r, input.method, input.query) /\ UNCHANGED <<vquery, vres, sideVars>>
    \/ \E r \in clients : pc[r] = "fetch" /\ \E outcome \in Outcomes(vreq[r].from) :
          AttemptResolves(r, outcome) /\ UNCHANGED <<vquery, vres, sideVars>>
    \/ \E r \in clients : BackoffElapses(r) /\ UNCHANGED <<vquery, vres, sideVars>>
    \/ Tick /\ UNCHANGED <<vquery, vres, sideVars>>

\* requests handled one at a time
Init == Start({"r1"}) /\ vquery = Null /\ vres = Null

Spec == Init /\ [][Next]_vars

\* line 141: the awaited upstream call of connection r settles
Settles(r) ==
    /\ pc[r] = "fetch"
    /\ \E outcome \in Outcomes(vreq[r].from) : AttemptResolves(r, outcome)
    /\ UNCHANGED <<vquery, vres, sideVars>>

\* every upstream call returns, fails or is aborted by its timeout (lines
\* 122-131), and every backoff timer fires (line 174)
Fairness ==
    \A r \in Reqs :
        /\ WF_vars(Settles(r))
        /\ WF_vars(BackoffElapses(r) /\ UNCHANGED <<vquery, vres, sideVars>>)

\* one connection, followed until its requests are answered
InitLive == Start({"r2"}) /\ vquery = Null /\ vres = Null

SpecLive == InitLive /\ [][Next]_vars /\ Fairness

\* two connections, whose requests interleave at every await
InitConcurrent == Start(Reqs) /\ vquery = Null /\ vres = Null

SpecConcurrent == InitConcurrent /\ [][Next]_vars

(***************************************************************************)
(* validateAndNormalizeQuery alone, on every query of ValidatorQueries.    *)
(***************************************************************************)
ValidatorAmounts == AmountInputs \cup {
    <<"+","5">>,
    <<"-","0">>,
    <<"1",".">>,
    <<".","5">>,
    <<" ","1","0","0"," ">>,
    <<" ">>,
    <<"1",".","2",".","3">>,
    <<"1","0","0","0","0","0","0","0","0","0","0","0","0">>,
    <<"1","0","0","0","0","0","0","0","0","0","0","0","1">>,
    <<"-","9","9","9","9","9","9","9","9","9","9","9","9","9">>,
    <<"1",".","0","0","0","0","0","0","0","0","0">>,
    MaxAmountDigits \o <<".","0","0","0","0","0","0","0","1">>,
    MaxAmountDigits \o <<".","0","0","0","0","6","1","0","4">>,
    <<"-">> \o MaxAmountDigits \o <<".","0","0","0","0","6","1","0","3">>,
    [i \in 1..(MAX_DOUBLE_DIGITS + 1) |-> "9"],
    <<"-", "2">> \o [i \in 1..(MAX_DOUBLE_DIGITS - 1) |-> "0"],
    <<"1">> \o [i \in 1..(MAX_DOUBLE_DIGITS - 1) |-> "0"] }

ValidatorQueries ==
    { MkQuery(keys, f, t, a) :
        keys \in { {"from", "to"}, {"from", "to", "amount"}, {"from", "to", "amount", "callback"},
                   {"from", "to", "callback"}, {"from", "amount"}, {"to"}, {"callback"} },
        f \in FromInputs \cup {Lower(USD), <<>>},
        t \in ToInputs \cup {Lower(EUR), <<>>},
        a \in ValidatorAmounts }

Validate ==
    /\ vres = Null
    /\ vres' = validateAndNormalizeQuery(vquery)
    /\ UNCHANGED <<cache, now, apiKey, pc, req, vreq, attempt, lastErr, data, resp, stats,
                   doneAt, logged, clients, tried, vquery, sideVars>>

InitValidator == Start({}) /\ vquery \in ValidatorQueries /\ vres = Null

SpecValidator == InitValidator /\ [][Validate]_vars

(***************************************************************************)
(* getFallbackRate alone, on every pair of supported codes and one         *)
(* unsupported code.                                                       *)
(***************************************************************************)
FallbackInputs == ALLOWED_CURRENCIES \cup { <<"X","Y","Z">> }

LookUp ==
    /\ vres = Null
    /\ vres' = getFallbackRate(vquery.from, vquery.to)
    /\ UNCHANGED <<cache, now, apiKey, pc, req, vreq, attempt, lastErr, data, resp, stats,
                   doneAt, logged, clients, tried, vquery, sideVars>>

InitFallback ==
    /\ Start({})
    /\ vquery \in { [from |-> f, to |-> t] : f \in FallbackInputs, t \in FallbackInputs }
    /\ vres = Null

SpecFallback == InitFallback /\ [][LookUp]_vars

(***************************************************************************)
(* server.js: the login sessions and the routes behind authMiddleware.     *)
(* SESSION_TTL_MS is counted in clock ticks.  A token is a number: uuidv4  *)
(* never returns the same token twice.                                     *)
(***************************************************************************)
MaxSessions == 2

SESSION_TTL_MS == 2

Users == {"ana", "ben"}

\* a request without an Authorization header, and one with a token that no
\* login has returned
NoToken == 0
ForgedToken == 0 - 1

LOGOUT == "/api/logout"
METRICS == "/api/security/metrics"

ProtectedRoutes == {LOGOUT, METRICS}

\* lines 116-121
createSession(username) ==
    LET token == Cardinality(DOMAIN issued) + 1
        expiresAt == now + SESSION_TTL_MS
    IN  /\ activeSessions' = (token :> [username |-> username, expiresAt |-> expiresAt])
                                @@ activeSessions
        /\ issued' = (token :> expiresAt) @@ issued

\* lines 227-296: POST /api/login with credentials the identity provider
\* accepts; every other login changes nothing
Login(username) ==
    /\ Cardinality(DOMAIN issued) < MaxSessions
    /\ createSession(username)
    /\ UNCHANGED <<revoked, served>>

\* a session that has not yet expired is taken for expired at its last tick too
SessionExpired_Strict(session, t) == session.expiresAt < t

\* line 126
SessionExpired(session, t) == session.expiresAt <= t

\* lines 123-131: the session validateSession returns, or null
validateSession(sessions, token, t) ==
    IF token \notin DOMAIN sessions THEN Null
    ELSE IF SessionExpired(sessions[token], t) THEN Null
    ELSE sessions[token]

\* lines 126-128: the Map after validateSession
sessionsAfterValidate(sessions, token, t) ==
    IF token \in DOMAIN sessions /\ SessionExpired(sessions[token], t)
    THEN [k \in DOMAIN sessions \ {token} |-> sessions[k]]
    ELSE sessions

\* lines 138-144: 401
Unauthorized(token, route) ==
    /\ validateSession(activeSessions, token, now) = Null
    /\ activeSessions' = sessionsAfterValidate(activeSessions, token, now)
    /\ served' = [token |-> token, route |-> route, status |-> 401, at |-> now]
    /\ UNCHANGED <<issued, revoked>>

\* lines 298-306: POST /api/logout, once admitted
Logout(token, route) ==
    /\ route = LOGOUT
    /\ validateSession(activeSessions, token, now) # Null
    /\ activeSessions' = [k \in DOMAIN activeSessions \ {token} |-> activeSessions[k]]
    /\ revoked' = revoked \cup {token}
    /\ served' = [token |-> token, route |-> route, status |-> 200, at |-> now]
    /\ UNCHANGED issued

\* lines 146-148 and 372-387: another route, once admitted
Admitted(token, route) ==
    /\ route # LOGOUT
    /\ validateSession(activeSessions, token, now) # Null
    /\ served' = [token |-> token, route |-> route, status |-> 200, at |-> now]
    /\ UNCHANGED <<activeSessions, issued, revoked>>

\* lines 133-149: a request to a protected route carrying the token
authMiddleware(token, route) ==
    \/ Unauthorized(token, route)
    \/ Logout(token, route)
    \/ Admitted(token, route)

NextSessions ==
    \/ \E username \in Users : Login(username) /\ UNCHANGED <<now, handlerVars, vquery, vres, timeoutVars, events>>
    \/ \E token \in DOMAIN issued \cup {NoToken, ForgedToken}, route \in ProtectedRoutes :
          authMiddleware(token, route) /\ UNCHANGED <<now, handlerVars, vquery, vres, timeoutVars, events>>
    \/ Tick /\ UNCHANGED <<vquery, vres, sideVars>>

InitSessions == Start({}) /\ vquery = Null /\ vres = Null

SpecSessions == InitSessions /\ [][NextSessions]_vars

(***************************************************************************)
(* SecurityMetrics: the in-memory list of security events.  events is      *)
(* this.events; each event carries the time addEvent stamped on it and a   *)
(* correlation id, here the number of the event in order of creation.      *)
(* vquery counts the events created, vres holds the last summary.          *)
(***************************************************************************)
\* this.maxAge and this.maxEvents, scaled down
maxAge == 2
maxEvents == 3

\* the most events created in one run
MaxCreated == 5

SEVERITY_LEVELS == [CRITICAL |-> 10, HIGH |-> 8, MEDIUM |-> 6, LOW |-> 4, INFO |-> 2]

EVENT_TYPES ==
    [ LOGIN_FAILURE |-> [category |-> "auth", severity |-> SEVERITY_LEVELS.MEDIUM],
      XSS_ATTEMPT |-> [category |-> "suspicious", severity |-> SEVERITY_LEVELS.HIGH] ]

\* events.slice(-n)
SliceLast(list, n) ==
    IF Len(list) <= n THEN list ELSE SubSeq(list, Len(list) - n + 1, Len(list))

\* events.slice(0, n), the other end of the list
cleanup_KeepsOldest(list, time) ==
    LET cutoff == time - maxAge
        Kept(e) == e.timestamp > cutoff
        recent == SelectSeq(list, Kept)
    IN  IF Len(recent) > maxEvents THEN SubSeq(recent, 1, maxEvents) ELSE recent

\* lines 65-75: the list after cleanup() at the given time
cleanup(list, time) ==
    LET cutoff == time - maxAge
        Kept(e) == e.timestamp > cutoff
        recent == SelectSeq(list, Kept)
    IN  IF Len(recent) > maxEvents THEN SliceLast(recent, maxEvents) ELSE recent

\* lines 153-178: the event createSiemEvent hands to addEvent
createSiemEvent(eventType, correlationId) ==
    [ correlationId |-> correlationId, eventType |-> eventType,
      category |-> EVENT_TYPES[eventType].category,
      severity |-> EVENT_TYPES[eventType].severity ]

\* lines 57-63: push {...event, timestamp: Date.now()}, then cleanup
Stamped(event, time) ==
    [ correlationId |-> event.correlationId, eventType |-> event.eventType,
      category |-> event.category, severity |-> event.severity, timestamp |-> time ]

addEvent(eventType) ==
    /\ vquery < MaxCreated
    /\ vquery' = vquery + 1
    /\ events' = cleanup(Append(events, Stamped(createSiemEvent(eventType, vquery + 1), now)), now)
    /\ UNCHANGED <<now, handlerVars, vres, sessVars, timeoutVars>>

\* lines 77-125: cleanup, then the summary of what is left
HighSeverity(list) ==
    LET High(e) == e.severity >= SEVERITY_LEVELS.HIGH IN Len(SelectSeq(list, High))

getSummary ==
    /\ events' = cleanup(events, now)
    /\ vres' = [ totalEvents |-> Len(events'), recentHighSeverity |-> HighSeverity(events'),
                 at |-> now ]
    /\ UNCHANGED <<now, handlerVars, vquery, sessVars, timeoutVars>>

NextMetrics ==
    \/ \E eventType \in DOMAIN EVENT_TYPES : addEvent(eventType)
    \/ getSummary
    \/ Tick /\ UNCHANGED <<vquery, vres, sideVars>>

InitMetrics ==
    /\ Start({})
    /\ apiKey
    /\ vquery = 0
    /\ vres = Null

SpecMetrics == InitMetrics /\ [][NextMetrics]_vars

(***************************************************************************)
(* HMAC request authentication: generateSignature, verifySignature and     *)
(* hmacAuthMiddleware.  vquery holds the request, the configured secret    *)
(* and the options of the middleware; vres what verifySignature and the    *)
(* middleware came to.  A timestamp header is [time |-> t] when it parses  *)
(* as the date t and [garbled |-> TRUE] when it does not.                  *)
(***************************************************************************)
SIGNATURE_HEADER == "x-signature"
TIMESTAMP_HEADER == "x-timestamp"
CLIENT_ID_HEADER == "x-client-id"

\* five minutes, scaled down
MAX_TIMESTAMP_SKEW == 1

HexDigits == <<"0","1","2","3","4","5","6","7","8","9","a","b","c","d","e","f">>

\* the hex digest has a fixed length whatever is signed (64 for sha256;
\* two digits here)
DigestLen == 2

HexOf(n, len) ==
    [ i \in 1..len |-> HexDigits[((n \div (16 ^ (len - i))) % 16) + 1] ]

MethodCode == [GET |-> 1, POST |-> 2]
SecretCode == [k1 |-> 5, k2 |-> 9]
Secret(name) == [key |-> name]
BodyCode(body) == IF body = Null THEN 0 ELSE 1

\* lines 56-65: a keyed digest of method, path, timestamp and body, in hex.
\* The digest is a small keyed checksum standing for HMAC-SHA256: it
\* depends on every part signed and on the secret.
generateSignature(method, path, timestamp, body, secret) ==
    HexOf((3 * MethodCode[method] + 7 * Len(path) + 11 * timestamp.time
             + 13 * BodyCode(body) + 17 * SecretCode[secret.key]) % (16 ^ DigestLen),
          DigestLen)

\* crypto.timingSafeEqual on Buffer.from of two strings of ASCII characters:
\* a RangeError when the byte lengths differ, else whether they are equal
Thrown(name) == [threw |-> name]

timingSafeEqual(a, b) ==
    IF Len(a) # Len(b) THEN Thrown("RangeError") ELSE [equal |-> a = b]

HeaderFalsy(request, name) ==
    \/ name \notin DOMAIN request.headers
    \/ request.headers[name] = <<>>

Invalid(error) == [valid |-> FALSE, error |-> error]

\* lines 74-129, called at the given time
verifySignature(request, secret, time) ==
    IF HeaderFalsy(request, SIGNATURE_HEADER) THEN Invalid("Missing signature header")
    ELSE IF HeaderFalsy(request, TIMESTAMP_HEADER) THEN Invalid("Missing timestamp header")
    ELSE IF HeaderFalsy(request, CLIENT_ID_HEADER) THEN Invalid("Missing client ID header")
    ELSE
      LET signature == request.headers[SIGNATURE_HEADER]
          timestamp == request.headers[TIMESTAMP_HEADER]
          clientId == request.headers[CLIENT_ID_HEADER]
      IN  IF "time" \notin DOMAIN timestamp THEN Invalid("Invalid timestamp format")
          ELSE
            LET requestTime == timestamp.time
                timeDiff == IF time >= requestTime THEN time - requestTime ELSE requestTime - time
                expectedSignature ==
                    generateSignature(request.method, request.path, timestamp, request.body, secret)
                compared == timingSafeEqual(signature, expectedSignature)
            IN  IF timeDiff > MAX_TIMESTAMP_SKEW
                  THEN [ valid |-> FALSE, error |-> "Request timestamp too old or too far in future",
                         timeDiff |-> timeDiff ]
                ELSE IF "threw" \in DOMAIN compared THEN compared
                ELSE IF ~compared.equal THEN Invalid("Invalid signature")
                ELSE [valid |-> TRUE, clientId |-> clientId]

\* lines 138-194: what the middleware does with the request: the status it
\* answers (0 when it sends nothing), whether it calls next(), and the
\* exception that leaves it
Answered(status, error) == [status |-> status, error |-> error, next |-> FALSE, threw |-> FALSE]
CallsNext == [status |-> 0, error |-> Null, next |-> TRUE, threw |-> FALSE]
Propagates == [status |-> 0, error |-> Null, next |-> FALSE, threw |-> TRUE]

hmacAuthMiddleware(request, secret, optional, time) ==
    IF optional /\ HeaderFalsy(request, SIGNATURE_HEADER) THEN CallsNext
    ELSE IF secret = Null THEN Answered(401, <<"Authentication required">>)
    ELSE
      LET result == verifySignature(request, secret, time)
      IN  IF "threw" \in DOMAIN result THEN Propagates
          ELSE IF ~result.valid THEN Answered(401, <<"Authentication failed">>)
          ELSE CallsNext

MetricsPath == <<"/","m">>

\* the signature a client sends: the right one, one of the right length with
\* a digit changed, a shorter and a longer one, none
ChangeLast(signature) ==
    [signature EXCEPT ![Len(signature)] = IF @ = "0" THEN "1" ELSE "0"]

SignaturesFor(method, timestamp, body) ==
    LET right == generateSignature(method, MetricsPath, timestamp, body, Secret("k1"))
    IN  { right, ChangeLast(right), SubSeq(right, 1, Len(right) - 1), Append(right, "0"), <<>>,
          generateSignature(method, MetricsPath, timestamp, body, Secret("k2")) }

HeaderSets ==
    { {SIGNATURE_HEADER, TIMESTAMP_HEADER, CLIENT_ID_HEADER},
      {TIMESTAMP_HEADER, CLIENT_ID_HEADER}, {SIGNATURE_HEADER, CLIENT_ID_HEADER},
      {SIGNATURE_HEADER, TIMESTAMP_HEADER} }

MkHeaders(names, signature, timestamp) ==
    [ name \in names |->
        IF name = SIGNATURE_HEADER THEN signature
        ELSE IF name = TIMESTAMP_HEADER THEN timestamp
        ELSE <<"c","1">> ]

HmacRequests ==
    { [ method |-> method, path |-> MetricsPath, body |-> body,
        headers |-> MkHeaders(names, signature, timestamp) ] :
        method \in {"GET", "POST"}, body \in {Null}, names \in HeaderSets,
        timestamp \in { [time |-> t] : t \in 0..MaxTime } \cup { [garbled |-> TRUE] },
        signature \in UNION { SignaturesFor(m, [time |-> t], Null) :
                                 m \in {"GET", "POST"}, t \in 0..MaxTime } }

HmacCall ==
    /\ vres = Null
    /\ vres' = [ result |-> verifySignature(vquery.request, Secret("k1"), now),
                 answer |-> hmacAuthMiddleware(vquery.request, vquery.secret, vquery.optional, now) ]
    /\ UNCHANGED <<now, handlerVars, vquery, sideVars>>

NextHmac ==
    \/ HmacCall
    \/ vres = Null /\ Tick /\ UNCHANGED <<vquery, vres, sideVars>>

InitHmac ==
    /\ Start({})
    /\ apiKey
    /\ vquery \in { [request |-> request, secret |-> secret, optional |-> optional] :
                       request \in HmacRequests, secret \in {Secret("k1"), Null}, optional \in BOOLEAN }
    /\ vres = Null

SpecHmac == InitHmac /\ [][NextHmac]_vars

(***************************************************************************)
(* server.js: the Express route GET /api/convert, for a request that       *)
(* authMiddleware has admitted.  vquery holds the request and what the     *)
(* upstream would answer, vres the response and the number of upstream     *)
(* fetches issued.                                                         *)
(***************************************************************************)
validateCurrencyCode(code) == ISO_CURRENCY_REGEX(code) /\ code \in ALLOWED_CURRENCIES

ExpressFailure(status, error) == [success |-> FALSE, status |-> status, error |-> error]

\* lines 417-461
respondWithRate(query, fromCurrency, toCurrency, rate, source, lastUpdated) ==
    LET rawAmt == trim(query["amount"])
        num == NumberOf(rawAmt)
        answer(convertedAmount) ==
            [ success |-> TRUE, status |-> 200, rate |-> rate, convertedAmount |-> convertedAmount,
              from |-> fromCurrency, to |-> toCurrency, lastUpdated |-> lastUpdated,
              source |-> source ]
    IN  IF ~Has(query, "amount") THEN answer(Null)
        ELSE IF ~PlainDecimalRegex(rawAmt)
          THEN ExpressFailure(400, "\"amount\" must be a plain decimal number without exponent.")
        ELSE IF ~NumIsFinite(num) \/ NumIsNegative(num)
          THEN ExpressFailure(400, "Invalid or negative \"amount\" provided.")
        ELSE IF Len(FracPart(rawAmt)) > 8
          THEN ExpressFailure(400, "\"amount\" may have at most 8 decimal places.")
        ELSE answer(ConvertedAmount(num, rate))

\* lines 389-518: the response and the count of upstream fetches
expressConvert(query, key, outcome) ==
    IF Falsy(query, "from") \/ Falsy(query, "to")
      THEN [ response |-> ExpressFailure(400, "Missing required query parameters \"from\" and \"to\"."),
             fetches |-> 0 ]
    ELSE
      LET fromCurrency == toUpperCase(query["from"])
          toCurrency == toUpperCase(query["to"])
          fallback == getFallbackRate(fromCurrency, toCurrency)
      IN  IF ~validateCurrencyCode(fromCurrency) \/ ~validateCurrencyCode(toCurrency)
            THEN [ response |-> ExpressFailure(400, "Currency codes must be supported 3-letter ISO codes."),
                   fetches |-> 0 ]
          ELSE IF ~key
            THEN [ response |-> respondWithRate(query, fromCurrency, toCurrency, fallback.rate,
                                                "fallback", fallback.lastUpdated),
                   fetches |-> 0 ]
          ELSE IF outcome.kind = "ok" /\ SuccessShape(outcome.payload)
            THEN IF toCurrency \in DOMAIN outcome.payload.conversion_rates
                 THEN [ response |-> respondWithRate(query, fromCurrency, toCurrency,
                                         outcome.payload.conversion_rates[toCurrency], "upstream",
                                         outcome.payload.time_last_update_utc),
                        fetches |-> 1 ]
                 ELSE [ response |-> ExpressFailure(400, "Exchange rate not available."),
                        fetches |-> 1 ]
          ELSE [ response |-> respondWithRate(query, fromCurrency, toCurrency, fallback.rate,
                                              "fallback", fallback.lastUpdated),
                 fetches |-> 1 ]

\* amounts sent to the route: well-formed ones, and ones with an exponent,
\* a sign, letters, blanks or too many decimals
ExpressAmounts ==
    { <<"1","0","0">>, <<"0",".","1","2","3","4","5","6","7","8">>, <<"+","5">>,
      <<"1","e","3">>, <<"-","5">>, <<"-","0",".","5">>, <<"a","b","c">>, <<>>,
      <<"1",".","2",".","3">>, <<" ","1","0","0"," ">>,
      <<"1",".","1","2","3","4","5","6","7","8","9">> }

ExpressQueries ==
    { MkQuery(keys, f, t, a) :
        keys \in { {"from", "to"}, {"from", "to", "amount"}, {"from", "amount"} },
        f \in {USD, Lower(USD), <<"X","Y","Z">>},
        t \in {EUR, Lower(EUR), <<>>},
        a \in ExpressAmounts }

\* what the upstream answers when asked: a table, a table without EUR, a
\* table without the marker, an error status
ExpressOutcomes ==
    { [kind |-> "ok", status |-> 200, payload |-> p] :
        p \in {PayloadA(USD), PayloadP(USD), PayloadNoMarker(USD)} } \cup
    { [kind |-> "status", status |-> 503, payload |-> Null] }

ExpressCall ==
    /\ vres = Null
    /\ vres' = expressConvert(vquery.query, apiKey, vquery.outcome)
    /\ UNCHANGED <<now, handlerVars, vquery, sideVars>>

InitExpress ==
    /\ Start({})
    /\ vquery \in { [query |-> q, outcome |-> o] : q \in ExpressQueries, o \in ExpressOutcomes }
    /\ vres = Null

SpecExpress == InitExpress /\ [][ExpressCall]_vars

(***************************************************************************)
(* fetchWithTimeout and the attempts of fetchRates, with the timer of each *)
(* attempt: two calls of fetchRates for the same base run concurrently.    *)
(* An attempt first waits for the response (pc "headers"), then reads its  *)
(* body (pc "body").  TIMEOUT_MS is counted in clock ticks.                *)
(***************************************************************************)
TIMEOUT_MS == 1

\* what fetchWithTimeout and fetchRates leave alone
outsideFetch == <<cache, apiKey, req, resp, doneAt, logged, clients, vquery, vres, sessVars, events>>

\* lines 123-126 and 141: attempt number n is issued; a controller and a
\* timer are created for it
IssueAttempt(r, n) ==
    /\ pc' = [pc EXCEPT ![r] = "headers"]
    /\ attempt' = [attempt EXCEPT ![r] = n]
    /\ timer' = [timer EXCEPT ![r] = now + TIMEOUT_MS]
    /\ started' = [started EXCEPT ![r] = now]

\* lines 134-141: fetchRates is called
CallFetchRates(r) ==
    /\ pc[r] \in {"idle", "done"}
    /\ Begin(r, [from |-> USD, to |-> EUR, amount |-> Null], [reads |-> 0, writes |-> 0, calls |-> 1])
    /\ IssueAttempt(r, 0)
    /\ UNCHANGED <<now, outsideFetch>>

\* lines 126-130: the response arrives before the timer has fired; the
\* finally block clears the timer and the body is read next
HeadersArrive(r, status) ==
    /\ pc[r] = "headers"
    /\ pc' = [pc EXCEPT ![r] = "body"]
    /\ timer' = [timer EXCEPT ![r] = NoTimer]
    /\ tried' = [tried EXCEPT ![r] = [ kind |-> IF status = 200 THEN "ok" ELSE "status",
                                        status |-> status, accepted |-> FALSE ]]
    /\ UNCHANGED <<now, outsideFetch, vreq, attempt, lastErr, data, stats, started>>

\* lines 157-161: the body of an OK response has been read and passes or
\* fails the shape check
OkBodyArrives(r, payload) ==
    /\ tried[r].status = 200
    /\ IF SuccessShape(payload)
       THEN /\ pc' = [pc EXCEPT ![r] = "done"]
            /\ data' = [data EXCEPT ![r] = payload]
            /\ tried' = [tried EXCEPT ![r].accepted = TRUE]
            /\ UNCHANGED <<lastErr, attempt, timer, started, stats>>
       ELSE /\ lastErr' = [lastErr EXCEPT ![r] = ErrorOf(tried[r])]
            /\ pc' = [pc EXCEPT ![r] = IF attempt[r] = RETRIES THEN "done" ELSE "backoff"]
            /\ UNCHANGED <<data, tried, attempt, timer, started, stats>>

\* lines 142-155 and 176: the body of a non-OK response has been read
ErrorBodyArrives(r) ==
    /\ tried[r].status # 200
    /\ IF StatusRetryable(tried[r].status) /\ attempt[r] # RETRIES
       THEN /\ IssueAttempt(r, attempt[r] + 1)
            /\ stats' = [stats EXCEPT ![r].calls = stats[r].calls + 1]
            /\ UNCHANGED <<lastErr, data, tried>>
       ELSE /\ lastErr' = [lastErr EXCEPT ![r] = ErrorOf(tried[r])]
            /\ pc' = [pc EXCEPT ![r] = "done"]
            /\ UNCHANGED <<data, tried, attempt, timer, started, stats>>

\* lines 143 and 157: res.text() or res.json() settles
BodyArrives(r, payload) ==
    /\ pc[r] = "body"
    /\ OkBodyArrives(r, payload) \/ ErrorBodyArrives(r)
    /\ UNCHANGED <<now, outsideFetch, vreq>>

\* one controller serves every attempt in flight
TimerFires_AbortsAll(r) ==
    /\ pc[r] = "headers"
    /\ timer[r] # NoTimer /\ now >= timer[r]
    /\ timer' = [q \in Reqs |-> IF pc[q] = "headers" THEN NoTimer ELSE timer[q]]
    /\ lastErr' = [q \in Reqs |-> IF pc[q] = "headers" THEN ErrorOf([kind |-> "abort", status |-> 0])
                                    ELSE lastErr[q]]
    /\ tried' = [q \in Reqs |-> IF pc[q] = "headers"
                                  THEN [kind |-> "abort", status |-> 0, accepted |-> FALSE]
                                  ELSE tried[q]]
    /\ pc' = [q \in Reqs |-> IF pc[q] = "headers"
                               THEN (IF attempt[q] = RETRIES THEN "done" ELSE "backoff")
                               ELSE pc[q]]
    /\ UNCHANGED <<now, outsideFetch, vreq, attempt, data, stats, started>>

\* lines 124-129 and 163-171: the timer of r's attempt fires while the
\* response is awaited; the controller aborts that call, which throws an
\* AbortError
TimerFires(r) ==
    /\ pc[r] = "headers"
    /\ timer[r] # NoTimer /\ now >= timer[r]
    /\ timer' = [timer EXCEPT ![r] = NoTimer]
    /\ lastErr' = [lastErr EXCEPT ![r] = ErrorOf([kind |-> "abort", status |-> 0])]
    /\ tried' = [tried EXCEPT ![r] = [kind |-> "abort", status |-> 0, accepted |-> FALSE]]
    /\ pc' = [pc EXCEPT ![r] = IF attempt[r] = RETRIES THEN "done" ELSE "backoff"]
    /\ UNCHANGED <<now, outsideFetch, vreq, attempt, data, stats, started>>

\* lines 173-176 and 139-141: the backoff is over and the next attempt is issued
BackoffEnds(r) ==
    /\ pc[r] = "backoff"
    /\ IssueAttempt(r, attempt[r] + 1)
    /\ stats' = [stats EXCEPT ![r].calls = stats[r].calls + 1]
    /\ UNCHANGED <<now, outsideFetch, vreq, lastErr, data, tried>>

\* time passes; an armed timer fires no later than its deadline
TimePasses ==
    /\ \A r \in Reqs : timer[r] = NoTimer \/ now < timer[r]
    /\ Tick
    /\ UNCHANGED <<vquery, vres, sideVars>>

NextTimeout ==
    \/ \E r \in clients : CallFetchRates(r)
    \/ \E r \in clients, status \in {200, 503} : HeadersArrive(r, status)
    \/ \E r \in clients, payload \in {PayloadA(USD), PayloadNoRates(USD)} : BodyArrives(r, payload)
    \/ \E r \in clients : TimerFires(r)
    \/ \E r \in clients : BackoffEnds(r)
    \/ TimePasses

InitTimeout == Start(Reqs) /\ apiKey /\ vquery = Null /\ vres = Null

SpecTimeout == InitTimeout /\ [][NextTimeout]_vars

(***************************************************************************)
(* C10: a query with a parameter name other than from, to, amount is       *)
(* rejected with the unexpected-parameter error, whatever else is right or *)
(* wrong in it: the check comes before every other check.                  *)
(***************************************************************************)
C10_UnknownParamRejectedFirst ==
    (vres # Null /\ DOMAIN vquery \ {"from", "to", "amount"} # {}) =>
        (~vres.ok /\ vres.error.msg = "Unexpected parameter")

\* a rejected query whose from, to and amount are valid by themselves
C10_Witness ==
    /\ vres # Null /\ ~vres.ok
    /\ "callback" \in DOMAIN vquery
    /\ validateAndNormalizeQuery([k \in DOMAIN vquery \ {"callback"} |-> vquery[k]]).ok
    /\ "amount" \in DOMAIN vquery

\* the value of a validated amount lies between 0 and 10^12
InAmountRange(n) ==
    /\ n.neg => (n.ip = <<"0">> /\ n.fp = <<>>)
    /\ \/ Len(n.ip) < MAX_AMOUNT_DIGITS
       \/ n.ip = MaxAmountDigits /\ n.fp = <<>>

(***************************************************************************)
(* C11: an accepted query yields from and to of three upper-case letters   *)
(* from the whitelist, the upper-cased inputs, and an amount that is null  *)
(* when the parameter is absent and otherwise a finite number between 0    *)
(* and 10^12 read from a literal with no exponent and at most eight        *)
(* fractional digits.                                                      *)
(***************************************************************************)
C11_AcceptedQueryNormalized ==
    (vres # Null /\ vres.ok) =>
        /\ \A c \in {vres.from, vres.to} :
              /\ Len(c) = 3
              /\ \A i \in 1..3 : \E j \in DOMAIN UpperCase : UpperCase[j] = c[i]
              /\ c \in ALLOWED_CURRENCIES
        /\ vres.from = toUpperCase(vquery["from"]) /\ vres.to = toUpperCase(vquery["to"])
        /\ IF "amount" \notin DOMAIN vquery
           THEN vres.amount = Null
           ELSE /\ vres.amount # Null
                /\ IsDigits(vres.amount.ip) /\ Len(vres.amount.ip) <= MAX_DOUBLE_DIGITS
                /\ InAmountRange(vres.amount)
                /\ \A i \in DOMAIN vquery["amount"] : vquery["amount"][i] \notin {"e", "E"}
                /\ Len(FracPart(trim(vquery["amount"]))) <= MAX_DECIMALS

\* usd to eur accepted with an amount of eight fractional digits
C11_Witness ==
    /\ vres # Null /\ vres.ok
    /\ vquery["from"] = <<"u","s","d">> /\ vres.from = USD
    /\ vquery["to"] = <<"e","u","r">> /\ vres.to = EUR
    /\ "amount" \in DOMAIN vquery
    /\ Len(FracPart(vquery["amount"])) = MAX_DECIMALS

(***************************************************************************)
(* Vocabulary of the claims about the handler.                             *)
(***************************************************************************)
Sources == {"upstream", "cache", "cache-fallback", "fallback"}

\* everything the model keeps of connection r's request
Rec(r) ==
    <<pc[r], req[r], vreq[r], attempt[r], lastErr[r], data[r], resp[r], stats[r], doneAt[r], logged[r]>>

\* this step is the handler taking a new request on connection r
Starting(r) == pc[r] \in {"idle", "done"} /\ Rec(r)' # Rec(r)

\* this step is fetchRates ending, and with it the request
Finishing(r) == pc[r] = "fetch" /\ pc'[r] = "done"

\* the rate the fallback table has for the pair, 1 when it has none
TableRate(from, to) ==
    IF from \in DOMAIN FALLBACK_RATES /\ to \in DOMAIN FALLBACK_RATES[from]
    THEN FALLBACK_RATES[from][to]
    ELSE Dec(1, 0)

\* the cache holds an unexpired entry for from with a rate for to
FreshRate(c, from, to, t) ==
    /\ (<<"latest:">> \o from) \in DOMAIN c
    /\ t - c[<<"latest:">> \o from].ts <= CACHE_TTL
    /\ to \in DOMAIN c[<<"latest:">> \o from].data.conversion_rates

RateIn(c, from, to) == c[<<"latest:">> \o from].data.conversion_rates[to]

IsPairUnavailable(response, q) ==
    /\ ~response.success
    /\ response.error = [msg |-> "Exchange rate not available.", arg |-> q.from \o q.to]

C2_NoKeyMeansFallback ==
    ~apiKey =>
        /\ cache = EmptyCache
        /\ \A r \in clients :
              /\ pc[r] \in {"idle", "done"}
              /\ stats[r] = NoStats
              /\ (pc[r] = "done" /\ vreq[r] # Null) =>
                    /\ resp[r].success /\ resp[r].source = "fallback"
                    /\ resp[r].rate = TableRate(vreq[r].from, vreq[r].to)

\* USD to EUR answered with the table's 0.85
C2_Witness ==
    /\ ~apiKey
    /\ \E r \in clients :
          /\ pc[r] = "done" /\ vreq[r] # Null
          /\ vreq[r].from = USD /\ vreq[r].to = EUR
          /\ resp[r].rate = Dec(85, 2) /\ resp[r].source = "fallback"

(***************************************************************************)
(* C3: with a credential, a request whose base has an unexpired cache      *)
(* entry with a rate for the target is answered at once with source cache  *)
(* and that rate, and issues no upstream call.                             *)
(***************************************************************************)
C3_CacheHit ==
    [][ \A r \in clients :
          (/\ Starting(r) /\ apiKey /\ vreq'[r] # Null
           /\ FreshRate(cache, vreq'[r].from, vreq'[r].to, now)) =>
             /\ pc'[r] = "done"
             /\ resp'[r].success /\ resp'[r].source = "cache"
             /\ resp'[r].rate = RateIn(cache, vreq'[r].from, vreq'[r].to)
             /\ stats'[r].calls = 0
             /\ cache' = cache ]_vars

\* a request answered from an entry aged exactly the TTL
C3_Witness ==
    \E r \in clients :
        /\ pc[r] = "done" /\ vreq[r] # Null /\ resp[r].success /\ resp[r].source = "cache"
        /\ doneAt[r] = now
        /\ now - cache[<<"latest:">> \o vreq[r].from].ts = CACHE_TTL

(***************************************************************************)
(* C4: when fetchRates returns a payload with a rate for the target, the   *)
(* payload is stored under the base with the current time and the answer   *)
(* is a success with source upstream and the payload's rate.               *)
(***************************************************************************)
C4_UpstreamSuccess ==
    [][ \A r \in clients :
          (/\ Finishing(r) /\ data'[r] # Null
           /\ vreq[r].to \in DOMAIN data'[r].conversion_rates) =>
             /\ DOMAIN cache' = DOMAIN cache \cup {<<"latest:">> \o vreq[r].from}
             /\ \A k \in DOMAIN cache' :
                   cache'[k] = IF k = <<"latest:">> \o vreq[r].from
                               THEN [ts |-> now, data |-> data'[r]]
                               ELSE cache[k]
             /\ resp'[r].success /\ resp'[r].source = "upstream"
             /\ resp'[r].rate = data'[r].conversion_rates[vreq[r].to] ]_vars

\* USD to EUR, amount 100, upstream rate 0.85: rate 0.85 and 85 converted
C4_Witness ==
    \E r \in clients :
        /\ pc[r] = "done" /\ vreq[r] # Null /\ resp[r].success /\ resp[r].source = "upstream"
        /\ vreq[r].from = USD /\ vreq[r].to = EUR
        /\ resp[r].rate = Dec(85, 2) /\ resp[r].convertedAmount = Dec(85, 0)
        /\ cache[<<"latest:">> \o USD] = [ts |-> doneAt[r], data |-> data[r]]

(***************************************************************************)
(* C5: when fetchRates returns a payload without a rate for the target,    *)
(* the request ends with the pair-unavailable error: no further upstream   *)
(* call, no second cache read, no fallback rate.                           *)
(***************************************************************************)
C5_PairUnavailableTerminal ==
    [][ \A r \in clients :
          (/\ Finishing(r) /\ data'[r] # Null
           /\ vreq[r].to \notin DOMAIN data'[r].conversion_rates) =>
             /\ IsPairUnavailable(resp'[r], vreq[r]) /\ resp'[r].status = 400
             /\ stats'[r].calls = stats[r].calls
             /\ stats'[r].reads = stats[r].reads ]_vars

C5_Witness ==
    \E r \in clients :
        /\ pc[r] = "done" /\ vreq[r] # Null /\ data[r] # Null
        /\ IsPairUnavailable(resp[r], vreq[r])
        /\ stats[r].reads = 1

SamePairAgain(r) ==
    /\ pc[r] = "done" /\ vreq[r] # Null /\ Rec(r)' # Rec(r)
    /\ apiKey
    /\ vreq'[r] # Null
    /\ vreq'[r].from = vreq[r].from /\ vreq'[r].to = vreq[r].to
    /\ now - doneAt[r] <= CACHE_TTL

(***************************************************************************)
(* C7 as stated: with a credential and requests handled one at a time, a   *)
(* request for the pair of the previous request, taken within the TTL of   *)
(* its completion, is answered with source cache and the previous rate,    *)
(* and the two requests make exactly one upstream call between them.       *)
(***************************************************************************)
C7_RepeatServedFromCache ==
    [][ \A r \in clients :
          SamePairAgain(r) =>
             /\ pc'[r] = "done"
             /\ resp'[r].success /\ resp'[r].source = "cache"
             /\ resp[r].success /\ resp'[r].rate = resp[r].rate
             /\ stats[r].calls + stats'[r].calls = 1 ]_vars

(***************************************************************************)
(* C7 amended: with a credential and requests handled one at a time, when  *)
(* the previous request was answered with source upstream, a request for   *)
(* the same pair taken within the TTL of that answer is answered with      *)
(* source cache and the same rate and makes no upstream call; the calls    *)
(* of the two are those of the first, between one and RETRIES + 1.         *)
(***************************************************************************)
C7_RepeatAfterUpstream ==
    [][ \A r \in clients :
          (SamePairAgain(r) /\ resp[r].success /\ resp[r].source = "upstream") =>
             /\ pc'[r] = "done"
             /\ resp'[r].success /\ resp'[r].source = "cache"
             /\ resp'[r].rate = resp[r].rate
             /\ stats'[r].calls = 0
             /\ stats[r].calls \in 1..(RETRIES + 1)
             /\ cache' = cache ]_vars

\* a request answered from upstream after a retry, the TTL later, with the
\* same request about to be answered from the cache at the same rate
C7_Witness ==
    \E r \in clients :
        /\ pc[r] = "done" /\ vreq[r] # Null /\ apiKey
        /\ resp[r].success /\ resp[r].source = "upstream"
        /\ stats[r].calls = 2
        /\ now - doneAt[r] = CACHE_TTL
        /\ ENABLED ( /\ Handle(r, req[r].method, req[r].query)
                     /\ UNCHANGED <<vquery, vres, sideVars>>
                     /\ pc'[r] = "done"
                     /\ resp'[r].source = "cache"
                     /\ resp'[r].rate = resp[r].rate )

(***************************************************************************)
(* C8: a validated request whose source and target currency are equal is   *)
(* answered with rate 1 and the amount unchanged, without cache access or  *)
(* upstream call, whatever the credential and the cache.                   *)
(***************************************************************************)
C8_SameCurrencyShortCircuit ==
    \A r \in clients :
        (vreq[r] # Null /\ vreq[r].from = vreq[r].to) =>
            /\ pc[r] = "done"
            /\ stats[r] = NoStats
            /\ resp[r].success
            /\ resp[r].rate = Dec(1, 0)
            /\ resp[r].convertedAmount =
                  IF vreq[r].amount = Null THEN Null ELSE DecOfNum(vreq[r].amount)

(***************************************************************************)
(* C9: a request whose query is malformed (exponent notation, more than    *)
(* eight fractional digits, negative or non-numeric amount, unsupported or *)
(* malformed currency code, unknown parameter) is rejected with an error,  *)
(* and the cache is not touched and no upstream call is made.              *)
(***************************************************************************)
C9_MalformedRejectedUntouched ==
    [][ \A r \in clients :
          (/\ Starting(r)
           /\ req'[r].method = GET
           /\ req'[r].query \in InvalidQueries) =>
             /\ pc'[r] = "done"
             /\ ~resp'[r].success /\ resp'[r].status = 400
             /\ stats'[r] = NoStats
             /\ cache' = cache ]_vars

\* amount 1e3 rejected with a payload in the cache
C9_Witness ==
    \E r \in clients :
        /\ pc[r] = "done" /\ req[r] # Null
        /\ "amount" \in DOMAIN req[r].query /\ req[r].query["amount"] = <<"1","e","3">>
        /\ ~resp[r].success /\ resp[r].status = 400
        /\ stats[r] = NoStats
        /\ cache # EmptyCache

StaleRate(c, from, to, t) ==
    /\ (<<"latest:">> \o from) \in DOMAIN c
    /\ t - c[<<"latest:">> \o from].ts > CACHE_TTL
    /\ to \in DOMAIN c[<<"latest:">> \o from].data.conversion_rates

(***************************************************************************)
(* C13: the cache read that follows a failed fetchRates does not apply the *)
(* expiry test: an entry for the base that is present but older than the   *)
(* TTL is served with source cache-fallback.                               *)
(***************************************************************************)
C13_DegradedReadServesStale ==
    [][ \A r \in clients :
          (/\ Finishing(r) /\ data'[r] = Null
           /\ StaleRate(cache, vreq[r].from, vreq[r].to, now)) =>
             /\ resp'[r].success /\ resp'[r].source = "cache-fallback"
             /\ resp'[r].rate = RateIn(cache, vreq[r].from, vreq[r].to) ]_vars

\* the response written by this step for connection r has the given source
AnswersFrom(r, source) ==
    /\ pc'[r] = "done" /\ resp'[r] # Null /\ resp'[r].success
    /\ resp'[r].source = source

(***************************************************************************)
(* C14: the source tag follows the order of the handler.  The upstream is  *)
(* asked only with a credential and after a cache read that gave no rate   *)
(* for the target; cache-fallback is answered only after the request's     *)
(* fetch failed; fallback is answered only without a credential, or after  *)
(* the fetch failed and the second cache read gave no rate for the target. *)
(***************************************************************************)
C14_ProvenanceSound ==
    [][ \A r \in clients :
          /\ (Starting(r) /\ pc'[r] = "fetch") =>
                /\ apiKey
                /\ ~FreshRate(cache, vreq'[r].from, vreq'[r].to, now)
                /\ stats'[r].reads = 1
          /\ (pc'[r] \in {"fetch", "backoff"} \/ stats'[r].calls > 0) => apiKey
          /\ (Starting(r) /\ pc'[r] = "done") =>
                (stats'[r].calls = 0 /\ ~AnswersFrom(r, "cache-fallback") /\ ~AnswersFrom(r, "upstream"))
          /\ (Starting(r) /\ AnswersFrom(r, "fallback")) => ~apiKey
          /\ (Finishing(r) /\ AnswersFrom(r, "cache-fallback")) =>
                (data'[r] = Null /\ lastErr'[r] # Null /\ stats'[r].calls > 0)
          /\ (Finishing(r) /\ AnswersFrom(r, "fallback")) =>
                /\ data'[r] = Null /\ lastErr'[r] # Null /\ stats'[r].calls > 0
                /\ stats'[r].reads = 2
                /\ ~FreshRate(cache, vreq[r].from, vreq[r].to, now) ]_vars

\* with a credential, a network error answered from the fallback table
\* after both cache reads found nothing
C14_Witness ==
    \E r \in clients :
        /\ apiKey /\ pc[r] = "done" /\ vreq[r] # Null
        /\ resp[r].success /\ resp[r].source = "fallback"
        /\ lastErr[r] # Null /\ lastErr[r].name = "TypeError"
        /\ stats[r] = [reads |-> 2, writes |-> 0, calls |-> 1]

\* the fields of a success body; status is the HTTP status beside the body
SuccessFields == {"success", "rate", "convertedAmount", "from", "to", "lastUpdated", "source"}

IsFallbackAnswer(r) ==
    pc[r] = "done" /\ vreq[r] # Null /\ resp[r].success /\ resp[r].source = "fallback"

(***************************************************************************)
(* C15: no response carries the defaulted flag of getFallbackRate.  Every  *)
(* success body has the same seven fields, so a fallback answer for a pair *)
(* of the table and one for a pair defaulted to 1 differ in no field name; *)
(* the flag is in what the handler logs for a fallback answer.             *)
(***************************************************************************)
C15_DefaultedFlagNotInResponse ==
    /\ \A r \in clients :
          pc[r] = "done" =>
            /\ DOMAIN resp[r] \cap {"defaulted", "fallbackDefaulted"} = {}
            /\ resp[r].success => DOMAIN resp[r] \ {"status"} = SuccessFields
            /\ IsFallbackAnswer(r) =>
                  /\ logged[r] # Null
                  /\ logged[r].fallbackDefaulted = ~HasFallbackRate(vreq[r].from, vreq[r].to)
    /\ \A r1, r2 \in clients :
          (IsFallbackAnswer(r1) /\ IsFallbackAnswer(r2)) => DOMAIN resp[r1] = DOMAIN resp[r2]

\* two fallback answers side by side: USD to EUR from the table, USD to
\* USD defaulted to 1
C15_Witness ==
    \E r1, r2 \in clients :
        /\ IsFallbackAnswer(r1) /\ IsFallbackAnswer(r2)
        /\ vreq[r1].to = EUR /\ resp[r1].rate = Dec(85, 2) /\ ~logged[r1].fallbackDefaulted
        /\ vreq[r2].to = USD /\ resp[r2].rate = Dec(1, 0) /\ logged[r2].fallbackDefaulted

\* the answer to request q after a failed fetch, from the cache and the
\* clock alone
AnswerAfterFailure(q, c, t) ==
    IF FreshRate(c, q.from, q.to, t)
    THEN Success(RateIn(c, q.from, q.to), q,
                 c[<<"latest:">> \o q.from].data.time_last_update_utc, "cache-fallback")
    ELSE Success(TableRate(q.from, q.to), q, "Date()", "fallback")

FailedWith(r, kind) ==
    /\ pc[r] = "done" /\ vreq[r] # Null /\ data[r] = Null /\ lastErr[r] # Null
    /\ kind = CASE lastErr[r].name = "AbortError" -> "abort"
                 [] lastErr[r].name = "TypeError" -> "network"
                 [] lastErr[r].name = "SyntaxError" -> "badjson"
                 [] lastErr[r].status # 0 -> "status"
                 [] OTHER -> "malformed"

(***************************************************************************)
(* C16: the response to a request whose fetch failed is determined by the  *)
(* request, the cache and the clock; the kind of failure (timeout, 5xx or  *)
(* 429, other 4xx, network error, malformed payload) changes no field and  *)
(* neither the upstream status nor its message appears in the response.    *)
(***************************************************************************)
C16_FailureKindNotObservable ==
    [][ \A r \in clients :
          (Finishing(r) /\ data'[r] = Null) =>
             /\ resp'[r] = AnswerAfterFailure(vreq[r], cache, now)
             /\ DOMAIN resp'[r] \cap {"error", "message", "upstreamStatus"} = {}
             /\ resp'[r].status = 200 ]_vars

\* the same request on two connections, one timed out twice, one refused
\* with 403, both answered alike
C16_Witness ==
    \E r1, r2 \in clients :
        /\ FailedWith(r1, "abort") /\ FailedWith(r2, "status") /\ lastErr[r2].status = 403
        /\ vreq[r1] = vreq[r2]
        /\ resp[r1] = resp[r2]
        /\ logged[r1] # logged[r2]

\* the pairs the table has a rate for, each with its rate
TableEntries ==
    { <<f, t, FALLBACK_RATES[f][t]>> : f \in {USD}, t \in DOMAIN FALLBACK_RATES[USD] } \cup
    { <<f, t, FALLBACK_RATES[f][t]>> : f \in {EUR}, t \in DOMAIN FALLBACK_RATES[EUR] } \cup
    { <<f, t, FALLBACK_RATES[f][t]>> : f \in {PHP}, t \in DOMAIN FALLBACK_RATES[PHP] } \cup
    { <<f, t, FALLBACK_RATES[f][t]>> : f \in {JPY}, t \in DOMAIN FALLBACK_RATES[JPY] }

(***************************************************************************)
(* C17: getFallbackRate returns the table's rate with defaulted false      *)
(* exactly for the pairs the table has an entry for, and rate 1 with       *)
(* defaulted true for every other pair, also when the table has the        *)
(* reverse pair: KRW to USD is 1 although USD to KRW is 1340.              *)
(***************************************************************************)
C17_FallbackRateDirectOnly ==
    vres # Null =>
        /\ \A e \in TableEntries :
              (e[1] = vquery.from /\ e[2] = vquery.to) => (vres.rate = e[3] /\ ~vres.defaulted)
        /\ (\A e \in TableEntries : e[1] # vquery.from \/ e[2] # vquery.to) =>
              (vres.rate = Dec(1, 0) /\ vres.defaulted)
        /\ DOMAIN vres = {"rate", "lastUpdated", "defaulted"}

\* KRW to USD: defaulted to 1 while the table has USD to KRW
C17_Witness ==
    /\ vres # Null
    /\ vquery.from = KRW /\ vquery.to = USD
    /\ vres.rate = Dec(1, 0) /\ vres.defaulted
    /\ <<USD, KRW, Dec(1340, 0)>> \in TableEntries

(***************************************************************************)
(* C18: in a success response of any source, convertedAmount is null when  *)
(* the query had no amount parameter and a number when it had one.         *)
(***************************************************************************)
C18_ConvertedAmountIffAmount ==
    \A r \in clients :
        (pc[r] = "done" /\ resp[r].success) =>
            /\ resp[r].source \in Sources
            /\ (resp[r].convertedAmount = Null) <=> ("amount" \notin DOMAIN req[r].query)
            /\ (resp[r].convertedAmount = Null) <=> (vreq[r].amount = Null)

\* a cache-fallback answer without amount beside an upstream answer for
\* amount 100
C18_Witness ==
    \E r1, r2 \in clients :
        /\ pc[r1] = "done" /\ resp[r1].success /\ resp[r1].source = "cache-fallback"
        /\ "amount" \notin DOMAIN req[r1].query /\ resp[r1].convertedAmount = Null
        /\ pc[r2] = "done" /\ resp[r2].success /\ resp[r2].source = "upstream"
        /\ "amount" \in DOMAIN req[r2].query /\ req[r2].query["amount"] = <<"1","0","0">>
        /\ resp[r2].convertedAmount = Dec(100, 0)

(***************************************************************************)
(* C19: with an amount, convertedAmount is amount * rate rounded once to   *)
(* six fractional digits, halves away from zero, whatever the source of    *)
(* the rate.                                                               *)
(***************************************************************************)
C19_RoundedHalfAwayFromZero ==
    \A r \in clients :
        (pc[r] = "done" /\ resp[r].success /\ vreq[r].amount # Null) =>
            resp[r].convertedAmount = RoundHalfUp(Mul(DecOfNum(vreq[r].amount), resp[r].rate), 6)

\* the checks of the validator in the order of the code, each with the
\* message of its failure; a check of the amount applies to the trimmed
\* literal of a query that has the parameter
ValidationChecks(query) ==
    LET hasAmt == "amount" \in DOMAIN query
        lit    == IF hasAmt THEN trim(query["amount"]) ELSE <<"0">>
        plain  == PlainDecimalRegex(lit)
        num    == NumberOf(IF plain THEN lit ELSE <<"0">>)
        codes  == { toUpperCase(query[k]) : k \in {"from", "to"} \cap DOMAIN query }
    IN  << [ fails |-> DOMAIN query \ {"from", "to", "amount"} # {},
             msg   |-> "Unexpected parameter" ],
           [ fails |-> \E k \in {"from", "to"} : k \notin DOMAIN query \/ query[k] = <<>>,
             msg   |-> "Missing required query parameters \"from\" and \"to\"." ],
           [ fails |-> \E c \in codes : Len(c) # 3 \/ \E i \in DOMAIN c : c[i] \notin Range(UpperCase),
             msg   |-> "Currency codes must be 3-letter ISO codes (A-Z)." ],
           [ fails |-> \E c \in codes : c \notin ALLOWED_CURRENCIES,
             msg   |-> "Currency not supported. Use a standard ISO 4217 currency code." ],
           [ fails |-> hasAmt /\ lit = <<>>,
             msg   |-> "If provided, \"amount\" must not be empty." ],
           [ fails |-> hasAmt /\ ~plain,
             msg   |-> "\"amount\" must be a plain decimal number without exponent." ],
           [ fails |-> hasAmt /\ ~NumIsFinite(num),
             msg   |-> "Invalid numeric value for \"amount\"." ],
           [ fails |-> hasAmt /\ ~(Len(num.ip) < MAX_AMOUNT_DIGITS \/ (num.ip = MaxAmountDigits /\ num.fp = <<>>)),
             msg   |-> "\"amount\" is out of allowed range." ],
           [ fails |-> hasAmt /\ lit # <<>> /\ Head(lit) = "-" /\ ~NumIsZero(num),
             msg   |-> "\"amount\" must be zero or a positive value." ],
           [ fails |-> hasAmt /\ Len(FracPart(lit)) > MAX_DECIMALS,
             msg   |-> "\"amount\" may have at most 8 decimal places." ] >>

(***************************************************************************)
(* C20: a rejected query gets one message, that of the first check that    *)
(* fails in the order of the code, and the messages of the checks are      *)
(* pairwise distinct; the magnitude is checked before the sign, so an      *)
(* amount below -10^12 is out of range.  A query failing no check is       *)
(* accepted.                                                               *)
(***************************************************************************)
C20_FirstFailingCheckReported ==
    vres # Null =>
        LET checks == ValidationChecks(vquery)
            failing == { i \in DOMAIN checks : checks[i].fails }
        IN  /\ \A i, j \in DOMAIN checks : i # j => checks[i].msg # checks[j].msg
            /\ vres.ok <=> failing = {}
            /\ ~vres.ok =>
                  /\ DOMAIN vres = {"ok", "error"}
                  /\ \E i \in failing :
                        /\ \A j \in failing : i <= j
                        /\ vres.error.msg = checks[i].msg

\* -9999999999999 fails the magnitude and the sign check and is reported
\* as out of range
C20_Witness ==
    /\ vres # Null /\ ~vres.ok
    /\ vres.error.msg = "\"amount\" is out of allowed range."
    /\ "amount" \in DOMAIN vquery /\ vquery["amount"] # <<>> /\ Head(vquery["amount"]) = "-"
    /\ Cardinality({ i \in DOMAIN ValidationChecks(vquery) : ValidationChecks(vquery)[i].fails }) > 1

(***************************************************************************)
(* C21: authMiddleware admits a request only if its token maps to an       *)
(* entry of activeSessions whose expiresAt is later than the current time; *)
(* a request carrying a token whose logout has been served, or whose       *)
(* expiresAt has passed, is answered 401 and the token has no entry in     *)
(* activeSessions once the request has been checked.                       *)
(***************************************************************************)
C21_SessionAdmission ==
    [][ served' # served =>
          LET token == served'.token
          IN  /\ served'.status # 401 =>
                    /\ token \in DOMAIN activeSessions
                    /\ activeSessions[token].expiresAt > now
              /\ (token \in revoked \/ (token \in DOMAIN issued /\ issued[token] <= now)) =>
                    /\ served'.status = 401
                    /\ token \notin DOMAIN activeSessions' ]_vars

\* a logout has been served, and a request carrying another token, issued
\* and never logged out, has been refused at the tick of its expiry
C21_Witness ==
    /\ revoked # {}
    /\ served # Null /\ served.status = 401 /\ served.route = METRICS
    /\ served.token \in DOMAIN issued \ revoked
    /\ issued[served.token] = now
    /\ served.token \notin DOMAIN activeSessions

\* vocabulary of the claims about fetchRates: the attempt of connection r
\* that is in flight ends in this step with the given status
AnsweredStatus(r, status) ==
    /\ pc[r] = "fetch"
    /\ attempt'[r] # attempt[r] \/ pc'[r] # pc[r]
    /\ tried'[r].kind = "status" /\ tried'[r].status = status

\* fetchRates of connection r throws in this step
FetchThrows(r) ==
    /\ pc[r] = "fetch" /\ pc'[r] = "done"
    /\ data'[r] = Null /\ lastErr'[r] # Null
    /\ resp'[r].source \in {"cache-fallback", "fallback"}

(***************************************************************************)
(* C22: one call of fetchRates issues at most RETRIES + 1 upstream         *)
(* attempts, whatever the upstream does; when the first attempt has been   *)
(* answered 503 and the second is answered 503 too, the call has made      *)
(* exactly 2 attempts and fails.                                           *)
(***************************************************************************)
C22_AttemptsBounded ==
    [][ \A r \in clients :
          /\ stats'[r].calls <= RETRIES + 1
          /\ ( /\ attempt[r] = 1 /\ tried[r].kind = "status" /\ tried[r].status = 503
               /\ AnsweredStatus(r, 503) ) =>
                  /\ stats'[r].calls = 2
                  /\ FetchThrows(r) ]_vars

\* the second attempt is in flight after a first one answered 503, and a
\* second 503 ends the call with two attempts made
C22_Witness ==
    \E r \in clients :
        /\ pc[r] = "fetch" /\ attempt[r] = 1 /\ stats[r].calls = 2
        /\ tried[r].kind = "status" /\ tried[r].status = 503
        /\ ENABLED ( /\ AttemptResolves(r, [kind |-> "status", status |-> 503, payload |-> Null])
                     /\ UNCHANGED <<vquery, vres, sideVars>>
                     /\ pc'[r] = "done"
                     /\ lastErr'[r].status = 503
                     /\ stats'[r].calls = 2 )

\* the failures the retry policy names as retryable: a timeout, a network
\* error, a status 429 or >= 500, an OK response failing the shape check
RetryableFailure(r) ==
    \/ tried'[r].kind \in {"abort", "network"}
    \/ tried'[r].kind = "status" /\ (tried'[r].status = 429 \/ tried'[r].status >= 500)
    \/ tried'[r].kind = "ok" /\ ~tried'[r].accepted

(***************************************************************************)
(* C23: while attempts remain (attempt < RETRIES), an attempt that ends    *)
(* in a retryable failure (a timeout, a network error, a status 429 or     *)
(* >= 500, an OK response failing the success-shape check) is followed by  *)
(* another attempt.                                                        *)
(***************************************************************************)
C23_RetryableFailureRetried ==
    [][ \A r \in clients :
          ( /\ pc[r] = "fetch" /\ attempt[r] < RETRIES
            /\ attempt'[r] # attempt[r] \/ pc'[r] # pc[r]
            /\ RetryableFailure(r) ) =>
               pc'[r] \in {"fetch", "backoff"} ]_vars

(***************************************************************************)
(* C24: an attempt answered with a 4xx status other than 429 ends the call *)
(* of fetchRates at once: no further attempt is made even when attempts    *)
(* remain, and the call fails with the error of that status.               *)
(***************************************************************************)
C24_ClientErrorNotRetried ==
    [][ \A r \in clients, status \in (400..499) \ {429} :
          AnsweredStatus(r, status) =>
              /\ FetchThrows(r)
              /\ stats'[r].calls = stats[r].calls
              /\ attempt'[r] = attempt[r]
              /\ lastErr'[r].message = "Upstream status" /\ lastErr'[r].status = status ]_vars

\* a call that ended on a 403 at its first attempt, with a retry left
C24_Witness ==
    \E r \in clients :
        /\ pc[r] = "done" /\ tried[r] # Null
        /\ tried[r].kind = "status" /\ tried[r].status = 403
        /\ attempt[r] = 0 /\ attempt[r] < RETRIES
        /\ stats[r].calls = 1
        /\ lastErr[r].status = 403

\* a further attempt of connection r's fetchRates call is issued in this step
Retrying(r) ==
    /\ pc[r] \in {"fetch", "backoff"}
    /\ stats'[r].calls = stats[r].calls + 1

(***************************************************************************)
(* C25: every retried attempt of fetchRates is preceded by a backoff       *)
(* delay, whatever retryable failure caused the retry: 200 ms before the   *)
(* second attempt, doubling with each further attempt.                     *)
(***************************************************************************)
C25_RetryAfterBackoff ==
    [][ \A r \in clients :
          Retrying(r) =>
              /\ pc[r] = "backoff"
              /\ delayMs(attempt[r]) = 200 * (2 ^ (stats[r].calls - 1)) ]_vars

\* the attempt in flight of connection r ends in this step without a payload
\* that fetchRates accepts
AttemptFails(r) ==
    /\ pc[r] = "fetch"
    /\ attempt'[r] # attempt[r] \/ pc'[r] # pc[r]
    /\ ~tried'[r].accepted

\* the failures after which fetchRates gives up whatever the attempt counter
NonRetryableFailure(r) ==
    \/ tried'[r].kind \in {"badjson", "network"}
    \/ tried'[r].kind = "status" /\ tried'[r].status \in (400..499) \ {429}

(***************************************************************************)
(* C26: fetchRates never waits a backoff delay that is not followed by an  *)
(* attempt: after the failure of the final attempt (attempt = RETRIES), or *)
(* after a non-retryable failure, it raises the error without any delay,   *)
(* and a delay it has begun ends with a further attempt.                   *)
(***************************************************************************)
C26_NoBackoffWithoutAttempt ==
    [][ \A r \in clients :
          /\ (AttemptFails(r) /\ (attempt[r] = RETRIES \/ NonRetryableFailure(r))) =>
                 FetchThrows(r)
          /\ pc'[r] = "backoff" => attempt'[r] < RETRIES
          /\ (pc[r] = "backoff" /\ pc'[r] # "backoff") =>
                 /\ pc'[r] = "fetch"
                 /\ stats'[r].calls = stats[r].calls + 1 ]_vars

\* a call whose final attempt timed out, after a first attempt that failed
\* and was followed by the backoff
C26_Witness ==
    \E r \in clients :
        /\ pc[r] = "done" /\ tried[r] # Null /\ tried[r].kind = "abort"
        /\ attempt[r] = RETRIES /\ stats[r].calls = RETRIES + 1
        /\ lastErr[r].name = "AbortError"
        /\ resp[r].source \in {"cache-fallback", "fallback"}

(***************************************************************************)
(* C27: when fetchRates fails, the error it raises is the error of the     *)
(* last attempt made, never that of an earlier attempt and never absent;   *)
(* when it returns, it returns a payload received from the upstream in     *)
(* the last attempt of that call, never a synthesized or cached table.     *)
(***************************************************************************)
C27_LastErrorRaised ==
    [][ \A r \in clients :
          Finishing(r) =>
              /\ tried'[r].accepted =>
                    /\ data'[r] \in OkPayloads(vreq[r].from)
                    /\ SuccessShape(data'[r])
                    /\ \E outcome \in Outcomes(vreq[r].from) :
                          /\ outcome.kind = "ok" /\ outcome.payload = data'[r]
                          /\ AttemptResolves(r, outcome)
              /\ ~tried'[r].accepted =>
                    /\ data'[r] = Null
                    /\ lastErr'[r] # Null
                    /\ lastErr'[r] = ErrorOf(tried'[r])
                    /\ logged'[r].warn = "Using cached data due to upstream failure" =>
                          /\ logged'[r].error.message = lastErr'[r].message
                          /\ logged'[r].error.status = lastErr'[r].status
                    /\ logged'[r].warn = "Upstream fetch failed, using fallback data" =>
                          /\ logged'[r].message.message = lastErr'[r].message
                          /\ logged'[r].message.status = lastErr'[r].status ]_vars

\* the first attempt timed out; the second is in flight and a 503 ends the
\* call with the error of the 503
C27_Witness ==
    \E r \in clients :
        /\ pc[r] = "fetch" /\ attempt[r] = 1
        /\ lastErr[r] # Null /\ lastErr[r].name = "AbortError"
        /\ ENABLED ( /\ AttemptResolves(r, [kind |-> "status", status |-> 503, payload |-> Null])
                     /\ UNCHANGED <<vquery, vres, sideVars>>
                     /\ pc'[r] = "done"
                     /\ lastErr'[r].name = "Error"
                     /\ lastErr'[r].status = 503 )

(***************************************************************************)
(* C28: with RETRIES = 1, when the first upstream attempt is answered 503  *)
(* and the second is answered 200 with a valid payload holding the         *)
(* target's rate, fetchRates returns the second attempt's payload and the  *)
(* request is answered with source upstream and the rate of that payload.  *)
(***************************************************************************)
C28_RetrySucceeds ==
    [][ \A r \in clients :
          ( /\ pc[r] = "fetch" /\ attempt[r] = 1
            /\ tried[r].kind = "status" /\ tried[r].status = 503
            /\ Finishing(r) /\ tried'[r].accepted
            /\ vreq[r].to \in DOMAIN data'[r].conversion_rates ) =>
               /\ \E outcome \in Outcomes(vreq[r].from) :
                     /\ outcome.kind = "ok" /\ outcome.payload = data'[r]
                     /\ AttemptResolves(r, outcome)
               /\ stats'[r].calls = 2
               /\ resp'[r].success /\ resp'[r].status = 200
               /\ resp'[r].source = "upstream"
               /\ resp'[r].rate = data'[r].conversion_rates[vreq[r].to]
               /\ resp'[r].lastUpdated = data'[r].time_last_update_utc ]_vars

\* the second attempt is in flight after a 503, and a valid answer ends the
\* request with the rate of that answer
C28_Witness ==
    \E r \in clients :
        /\ pc[r] = "fetch" /\ attempt[r] = 1 /\ RETRIES = 1
        /\ tried[r].kind = "status" /\ tried[r].status = 503
        /\ vreq[r].from = USD /\ vreq[r].to = EUR
        /\ ENABLED ( /\ AttemptResolves(r, [kind |-> "ok", status |-> 200, payload |-> PayloadB(USD)])
                     /\ UNCHANGED <<vquery, vres, sideVars>>
                     /\ pc'[r] = "done"
                     /\ resp'[r].source = "upstream"
                     /\ resp'[r].rate = PayloadB(USD).conversion_rates[EUR] )

(***************************************************************************)
(* C29: an HTTP-OK upstream response is accepted by fetchRates only if it  *)
(* carries the success indicator and a non-empty rate mapping; an OK       *)
(* response without the marker, without the mapping or with an empty       *)
(* mapping is a malformed payload: it is retried while attempts remain and *)
(* is never written to the cache.                                          *)
(***************************************************************************)
C29_EmptyMappingIsMalformed ==
    [][ \A r \in clients :
          ( /\ pc[r] = "fetch" /\ tried'[r] # Null /\ tried'[r].kind = "ok"
            /\ attempt'[r] # attempt[r] \/ pc'[r] # pc[r] ) =>
               /\ tried'[r].accepted =>
                     /\ data'[r].result = "success"
                     /\ DOMAIN data'[r].conversion_rates # {}
               /\ ~tried'[r].accepted =>
                     /\ lastErr'[r].message = "Unexpected upstream payload"
                     /\ attempt[r] < RETRIES => pc'[r] = "backoff"
                     /\ stats'[r].writes = stats[r].writes
               /\ \A k \in DOMAIN cache' :
                     DOMAIN cache'[k].data.conversion_rates # {} ]_vars

\* the cache entry under key is new or has changed in this step
Written(key) ==
    /\ key \in DOMAIN cache'
    /\ key \notin DOMAIN cache \/ cache'[key] # cache[key]

(***************************************************************************)
(* C30: no negative caching.  A cache entry is written only in the step in *)
(* which fetchRates returns a payload, and it holds that payload.  A       *)
(* request whose fetch fails writes and overwrites no entry, and an entry  *)
(* for its base that is present and unexpired when the fetch fails is      *)
(* returned by a read after the failure.                                   *)
(***************************************************************************)
C30_NoNegativeCaching ==
    [][ /\ \A key \in DOMAIN cache' :
              Written(key) =>
                  \E r \in clients :
                      /\ Finishing(r) /\ tried'[r].accepted
                      /\ key = getCacheKey(vreq[r].from)
                      /\ cache'[key] = [ts |-> now, data |-> data'[r]]
        /\ \A r \in clients :
              FetchThrows(r) =>
                  LET key == getCacheKey(vreq[r].from)
                  IN  /\ stats'[r].writes = stats[r].writes
                      /\ \A k \in DOMAIN cache' : ~Written(k)
                      /\ (key \in DOMAIN cache /\ ~CacheExpired(cache, key, now)) =>
                            /\ key \in DOMAIN cache' /\ cache'[key] = cache[key]
                            /\ readFromCache(cache', vreq[r].from, now') = cache[key].data ]_vars

\* a request whose fetch failed while the cache held an unexpired entry for
\* its base: the entry is there and the request was answered from it
C30_Witness ==
    \E r \in clients :
        /\ pc[r] = "done" /\ vreq[r] # Null
        /\ lastErr[r] # Null /\ data[r] = Null /\ stats[r].writes = 0
        /\ doneAt[r] = now
        /\ FreshRate(cache, vreq[r].from, vreq[r].to, now)
        /\ resp[r].source = "cache-fallback"
        /\ resp[r].rate = RateIn(cache, vreq[r].from, vreq[r].to)

\* the handler of connection r reads the cache in this step: on arrival with
\* a credential, or after fetchRates has thrown
ReadsCache(r) ==
    \/ Starting(r) /\ stats'[r].reads = 1
    \/ FetchThrows(r)

\* the response is made from a table read from the cache
FromCachedTable(response) ==
    /\ response # Null /\ response.success
    /\ response.source \in {"cache", "cache-fallback"}

(***************************************************************************)
(* C31: readFromCache(base) returns the stored table exactly when an entry *)
(* for base exists with now - storedAt <= TTL, an entry aged exactly the   *)
(* TTL included; when now - storedAt > TTL it returns absent and removes   *)
(* the entry, so that a later read returns absent too, until a new write.  *)
(***************************************************************************)
C31_ReadServesUntilTTL ==
    [][ /\ \A r \in clients :
              ReadsCache(r) =>
                  LET base == vreq'[r].from
                      to == vreq'[r].to
                      key == getCacheKey(base)
                      stored == key \in DOMAIN cache
                      fresh == stored /\ now - cache[key].ts <= CACHE_TTL
                  IN  /\ readFromCache(cache, base, now) = IF fresh THEN cache[key].data ELSE Null
                      /\ FromCachedTable(resp'[r]) <=>
                             (fresh /\ to \in DOMAIN cache[key].data.conversion_rates)
                      /\ FromCachedTable(resp'[r]) =>
                             /\ resp'[r].rate = cache[key].data.conversion_rates[to]
                             /\ resp'[r].lastUpdated = cache[key].data.time_last_update_utc
                      /\ fresh => (key \in DOMAIN cache' /\ cache'[key] = cache[key])
                      /\ (stored /\ ~fresh) =>
                             /\ key \notin DOMAIN cache'
                             /\ \A t \in now..MaxTime : readFromCache(cache', base, t) = Null
        /\ \A key \in DOMAIN cache' \ DOMAIN cache :
              \E r \in clients :
                  /\ Finishing(r) /\ tried'[r].accepted
                  /\ key = getCacheKey(vreq[r].from) ]_vars

\* a request answered from an entry aged exactly the TTL
C31_Witness ==
    \E r \in clients :
        /\ pc[r] = "done" /\ vreq[r] # Null /\ FromCachedTable(resp[r])
        /\ resp[r].source = "cache" /\ doneAt[r] = now
        /\ getCacheKey(vreq[r].from) \in DOMAIN cache
        /\ now - cache[getCacheKey(vreq[r].from)].ts = CACHE_TTL

\* the other connection
Other(r) == CHOOSE o \in Reqs : o # r

(***************************************************************************)
(* C32: two concurrent requests for the same base that both miss the cache *)
(* both call the upstream: a request that misses goes upstream even while  *)
(* another request for its base is in flight.  Each successful fetch       *)
(* writes its table, replacing whatever entry there is, so that the entry  *)
(* is the table and the time of the write that happened last.              *)
(***************************************************************************)
C32_NoCoalescingLastWriteWins ==
    [][ \A r \in clients :
          /\ ( /\ Starting(r) /\ apiKey /\ vreq'[r] # Null
               /\ ~FreshRate(cache, vreq'[r].from, vreq'[r].to, now) ) =>
                  /\ pc'[r] = "fetch"
                  /\ stats'[r].calls = 1
          /\ (Finishing(r) /\ tried'[r].accepted) =>
                  /\ stats'[r].writes = 1
                  /\ cache'[getCacheKey(vreq[r].from)] = [ts |-> now, data |-> data'[r]]
          /\ (Starting(r) \/ pc[r] \in {"fetch", "backoff"}) /\ Rec(r)' # Rec(r) =>
                  Rec(Other(r))' = Rec(Other(r)) ]_vars

\* both requests missed the cache for the same base; the first has written
\* its table, the second is still in flight and its table will replace it
C32_Witness ==
    \E r \in clients :
        /\ Other(r) \in clients
        /\ pc[r] = "fetch" /\ pc[Other(r)] = "done"
        /\ vreq[Other(r)] # Null /\ vreq[Other(r)].from = vreq[r].from
        /\ stats[r].calls = 1 /\ stats[Other(r)].calls = 1 /\ stats[Other(r)].writes = 1
        /\ FreshRate(cache, vreq[r].from, vreq[r].to, now)
        /\ cache[getCacheKey(vreq[r].from)].data = PayloadA(vreq[r].from)
        /\ data[Other(r)] = PayloadA(vreq[r].from)
        /\ ENABLED ( /\ AttemptResolves(r, [kind |-> "ok", status |-> 200,
                                              payload |-> PayloadB(vreq[r].from)])
                     /\ UNCHANGED <<vquery, vres, sideVars>>
                     /\ cache'[getCacheKey(vreq[r].from)] =
                            [ts |-> now, data |-> PayloadB(vreq[r].from)] )

\* everything fetchRates keeps of connection r's call
Call(r) == <<pc[r], attempt[r], lastErr[r], tried[r], data[r], timer[r], started[r], stats[r]>>

(***************************************************************************)
(* C33: cancellation is per attempt.  The timeout of one request's attempt *)
(* aborts that attempt only: the attempt that another request has in       *)
(* flight for the same base is neither aborted nor failed by it.  A retry  *)
(* after a timeout is a new attempt with a timer of its own.               *)
(***************************************************************************)
C33_CancellationPerAttempt ==
    [][ \A r \in clients :
          /\ (pc[r] = "headers" /\ tried'[r] # Null /\ tried'[r].kind = "abort" /\ pc'[r] # "headers") =>
                 /\ timer[r] # NoTimer /\ now >= timer[r]
                 /\ vreq[Other(r)] = vreq[r] => Call(Other(r))' = Call(Other(r))
          /\ (pc[r] # "headers" /\ pc'[r] = "headers") =>
                 /\ timer'[r] = now + TIMEOUT_MS
                 /\ started'[r] = now
                 /\ timer'[Other(r)] = timer[Other(r)] ]_vars

\* the first attempt of a request has timed out and its retry is in flight
\* with its own timer, while the other request's attempt for the same base,
\* issued before the timeout, is still waiting
C33_Witness ==
    \E r \in clients :
        /\ pc[r] = "headers" /\ attempt[r] = 1
        /\ lastErr[r] # Null /\ lastErr[r].name = "AbortError"
        /\ timer[r] = started[r] + TIMEOUT_MS
        /\ pc[Other(r)] = "headers" /\ vreq[Other(r)] = vreq[r]
        /\ lastErr[Other(r)] = Null
        /\ started[Other(r)] < started[r]

(***************************************************************************)
(* C34: each upstream attempt is bounded by the timeout as a whole: an     *)
(* attempt that is still waiting for the response or still reading the     *)
(* response body when the timeout has elapsed is cancelled, so no attempt  *)
(* is in flight for longer than the timeout.                               *)
(***************************************************************************)
C34_AttemptBoundedByTimeout ==
    \A r \in clients :
        pc[r] \in {"headers", "body"} => now - started[r] <= TIMEOUT_MS

\* a step of connection r's fetchRates call after which the call goes on
InsideFetchRates(r) ==
    /\ pc[r] \in {"fetch", "backoff"} /\ pc'[r] \in {"fetch", "backoff"}
    /\ Rec(r)' # Rec(r) \/ tried'[r] # tried[r]

(***************************************************************************)
(* C35: fetchRates leaves the cache alone.  While a call of fetchRates     *)
(* goes on, whatever its attempts end with, its steps read, write and      *)
(* evict no cache entry; in the step in which the call ends the cache      *)
(* changes only by what the handler does with the result: the write of the *)
(* returned table, or the read that follows a failure.                     *)
(***************************************************************************)
C35_FetchRatesLeavesCache ==
    [][ \A r \in clients :
          /\ InsideFetchRates(r) =>
                 /\ cache' = cache
                 /\ stats'[r].reads = stats[r].reads
                 /\ stats'[r].writes = stats[r].writes
          /\ (Finishing(r) /\ tried'[r].accepted) =>
                 /\ cache' = writeToCache(cache, vreq[r].from, data'[r], now)
                 /\ stats'[r].reads = stats[r].reads
          /\ (Finishing(r) /\ ~tried'[r].accepted) =>
                 /\ cache' = cacheAfterRead(cache, vreq[r].from, now)
                 /\ stats'[r].writes = stats[r].writes ]_vars

\* a call in its second attempt, after a retry at once, while the cache
\* holds an entry for its base
C35_Witness ==
    \E r \in clients :
        /\ pc[r] = "fetch" /\ attempt[r] = 1 /\ lastErr[r] = Null
        /\ tried[r] # Null /\ tried[r].kind = "status"
        /\ getCacheKey(vreq[r].from) \in DOMAIN cache
        /\ stats[r].reads = 1 /\ stats[r].writes = 0

\* the response has the given source
HasSource(response, source) ==
    response # Null /\ response.success /\ response.source = source

(***************************************************************************)
(* C36: a response with source cache-fallback is produced only when        *)
(* another request wrote the entry for the same base after this request's  *)
(* first cache read and before its read after the failure.  A request that *)
(* goes upstream leaves its first read without an unexpired rate for its   *)
(* pair; such a rate appears only through the write of a request whose     *)
(* fetch returns; cache-fallback is answered from such a rate.  When no    *)
(* other request has been handled, no response has source cache-fallback.  *)
(***************************************************************************)
C36_CacheFallbackNeedsOtherWriter ==
    [][ /\ \A r \in clients :
              /\ (Starting(r) /\ pc'[r] = "fetch") =>
                     ~FreshRate(cache', vreq'[r].from, vreq'[r].to, now)
              /\ (Finishing(r) /\ HasSource(resp'[r], "cache-fallback")) =>
                     /\ FreshRate(cache, vreq[r].from, vreq[r].to, now)
                     /\ resp'[r].rate = RateIn(cache, vreq[r].from, vreq[r].to)
                     /\ ~tried'[r].accepted
                     /\ pc[Other(r)] # "idle"
              /\ (HasSource(resp'[r], "cache-fallback") /\ resp'[r] # resp[r]) => Finishing(r)
        /\ \A from \in {USD, EUR}, to \in {USD, EUR} :
              (~FreshRate(cache, from, to, now) /\ FreshRate(cache', from, to, now')) =>
                  \E w \in clients :
                      /\ Finishing(w) /\ tried'[w].accepted /\ vreq[w].from = from
                      /\ cache'[getCacheKey(from)] = [ts |-> now, data |-> data'[w]]
                      /\ \A r \in clients \ {w} : pc'[r] = pc[r] ]_vars

\* a request answered cache-fallback from the entry the other request wrote
\* while it was in flight
C36_Witness ==
    \E r \in clients :
        /\ pc[r] = "done" /\ HasSource(resp[r], "cache-fallback") /\ doneAt[r] = now
        /\ pc[Other(r)] = "done" /\ data[Other(r)] # Null /\ stats[Other(r)].writes = 1
        /\ vreq[Other(r)].from = vreq[r].from
        /\ cache[getCacheKey(vreq[r].from)].data = data[Other(r)]
        /\ cache[getCacheKey(vreq[r].from)].ts = doneAt[Other(r)]

\* the cache holds an unexpired entry for from that has no rate for to
FreshWithoutRate(c, from, to, t) ==
    /\ getCacheKey(from) \in DOMAIN c
    /\ t - c[getCacheKey(from)].ts <= CACHE_TTL
    /\ to \notin DOMAIN c[getCacheKey(from)].data.conversion_rates

(***************************************************************************)
(* C37: when a fetch returns a table that has no rate for the target, the  *)
(* table is written to the cache all the same and the request is answered  *)
(* with the pair-unavailable error; a later request for the same pair      *)
(* within the TTL is not answered from that table: it misses the cache and *)
(* the upstream is called again.                                           *)
(***************************************************************************)
C37_UnusableTableCachedAndMissed ==
    [][ \A r \in clients :
          /\ ( /\ Finishing(r) /\ tried'[r].accepted
               /\ vreq[r].to \notin DOMAIN data'[r].conversion_rates ) =>
                  /\ getCacheKey(vreq[r].from) \in DOMAIN cache'
                  /\ cache'[getCacheKey(vreq[r].from)] = [ts |-> now, data |-> data'[r]]
                  /\ stats'[r].writes = 1
                  /\ IsPairUnavailable(resp'[r], vreq[r])
                  /\ resp'[r].status = 400
          /\ ( /\ Starting(r) /\ apiKey /\ vreq'[r] # Null
               /\ FreshWithoutRate(cache, vreq'[r].from, vreq'[r].to, now) ) =>
                  /\ pc'[r] = "fetch"
                  /\ stats'[r].calls = 1 /\ stats'[r].reads = 1
                  /\ resp'[r] = Null
                  /\ cache' = cache ]_vars

\* a request answered pair-unavailable whose table is in the cache, the TTL
\* later, with the same request about to go upstream again
C37_Witness ==
    \E r \in clients :
        /\ pc[r] = "done" /\ vreq[r] # Null /\ data[r] # Null
        /\ IsPairUnavailable(resp[r], vreq[r])
        /\ DOMAIN data[r].conversion_rates # {}
        /\ FreshWithoutRate(cache, vreq[r].from, vreq[r].to, now)
        /\ cache[getCacheKey(vreq[r].from)] = [ts |-> doneAt[r], data |-> data[r]]
        /\ now - doneAt[r] = CACHE_TTL
        /\ ENABLED ( /\ Handle(r, req[r].method, req[r].query)
                     /\ UNCHANGED <<vquery, vres, sideVars>>
                     /\ pc'[r] = "fetch"
                     /\ stats'[r].calls = 1 )

\* an amount that is no plain non-negative decimal with at most 8 decimals
MalformedAmount(query) ==
    /\ Has(query, "amount")
    /\ LET rawAmt == trim(query["amount"])
       IN  \/ ~PlainDecimalRegex(rawAmt)
           \/ NumIsNegative(NumberOf(rawAmt))
           \/ Len(FracPart(rawAmt)) > 8

(***************************************************************************)
(* C38: in the Express route GET /api/convert of server.js, a request      *)
(* whose amount is malformed (exponent notation, negative, non-numeric,    *)
(* more than 8 fractional digits) is answered 400 without any upstream     *)
(* fetch having been issued.                                               *)
(***************************************************************************)
C38_ExpressRejectsBeforeFetch ==
    (vres # Null /\ MalformedAmount(vquery.query)) =>
        /\ vres.response.status = 400
        /\ vres.fetches = 0

\* a call of addEvent or getSummary has returned in this step
MetricsCall == vquery' # vquery \/ vres' # vres

(***************************************************************************)
(* C39: after any call of addEvent or getSummary the event list holds at   *)
(* most maxEvents events, every one of them stamped less than maxAge ago;  *)
(* the list is in insertion order, an added event is in it, and an event   *)
(* that was dropped was either too old or, the list being full, older than *)
(* every event kept.                                                       *)
(***************************************************************************)
C39_MetricsBounded ==
    [][ MetricsCall =>
          /\ Len(events') <= maxEvents
          /\ \A i \in 1..Len(events') : now' - events'[i].timestamp < maxAge
          /\ \A i, j \in 1..Len(events') :
                i < j => events'[i].correlationId < events'[j].correlationId
          /\ vquery' # vquery =>
                /\ Len(events') > 0
                /\ events'[Len(events')].correlationId = vquery'
                /\ events'[Len(events')].timestamp = now'
          /\ \A i \in 1..Len(events) :
                (\A j \in 1..Len(events') : events'[j] # events[i]) =>
                    \/ now' - events[i].timestamp >= maxAge
                    \/ /\ Len(events') = maxEvents
                       /\ \A j \in 1..Len(events') :
                             events[i].correlationId < events'[j].correlationId
    ]_vars

\* the list is full and its oldest event is not the first one created,
\* though it is as old as that one: the limit dropped the first
C39_Witness ==
    /\ Len(events) = maxEvents
    /\ events[1].correlationId > 1
    /\ events[1].timestamp = 0

\* the request carries the three headers and a fresh timestamp, its
\* signature is not the expected one, and the secret is configured
WrongSignature ==
    /\ vquery.secret = Secret("k1")
    /\ ~HeaderFalsy(vquery.request, SIGNATURE_HEADER)
    /\ ~HeaderFalsy(vquery.request, TIMESTAMP_HEADER)
    /\ ~HeaderFalsy(vquery.request, CLIENT_ID_HEADER)
    /\ "time" \in DOMAIN vquery.request.headers[TIMESTAMP_HEADER]
    /\ LET timestamp == vquery.request.headers[TIMESTAMP_HEADER]
       IN  /\ timestamp.time - now <= MAX_TIMESTAMP_SKEW
           /\ now - timestamp.time <= MAX_TIMESTAMP_SKEW
           /\ vquery.request.headers[SIGNATURE_HEADER] #
                 generateSignature(vquery.request.method, vquery.request.path, timestamp,
                                   vquery.request.body, Secret("k1"))

(***************************************************************************)
(* C40: verifySignature always returns a result object and never throws:   *)
(* for a request with the three HMAC headers, a fresh timestamp and a      *)
(* signature that differs from the expected one, whatever its length, it   *)
(* returns {valid: false, error: 'Invalid signature'} and the middleware   *)
(* answers 401 without calling next().                                     *)
(***************************************************************************)
C40_VerifySignatureNeverThrows ==
    vres # Null =>
        /\ "threw" \notin DOMAIN vres.result
        /\ WrongSignature =>
              /\ vres.result = Invalid("Invalid signature")
              /\ vres.answer.status = 401
              /\ ~vres.answer.next

====
